---------------------------- MODULE Spec2Model ----------------------------
(***************************************************************************)
(* Kun text editor: the in-document search session of the main window      *)
(* (inline find widget) and the Find & Replace dialog                      *)
(* (src/ui/main_window.py), over the document of the current editor tab    *)
(* (src/ui/editor_tab.py), the text statistics of TextAnalyzer             *)
(* (src/core/text_analyzer.py), and the tabs, files, recent files and      *)
(* session of the window (src/core/file_ops.py, src/ui/main_window.py).    *)
(*                                                                         *)
(* A text is a sequence of one-character strings.  Offsets are 0-based as  *)
(* in the code; TLA+ sequences are 1-based, so the character at offset i   *)
(* is text[i + 1].                                                         *)
(***************************************************************************)
EXTENDS Integers, Sequences, FiniteSets, TLC

(***************************************************************************)
(* Bounds of the model.                                                    *)
(***************************************************************************)
\* Longest document and longest find input of the find-widget session.
MaxLen == 3
MaxTermLen == 1
\* Longest document and longest find / replace input of the replace dialog.
MaxDlgLen == 3
MaxDlgTermLen == 1
\* Longest find input of the highlight-all scan taken alone.
MaxScanTermLen == 2
\* Longest document and longest input of Replace All taken pass by pass.
MaxLoopLen == 2
MaxLoopTermLen == 1

(***************************************************************************)
(* Characters.                                                             *)
(***************************************************************************)
Letters == {"a", "A", "b", "c", "e", "f", "h", "i", "j", "k", "l", "m", "o",
            "p", "q", "r", "s", "t", "T", "u", "v", "x", "y", "z"}
Space == " "

\* The characters the bounded documents are written in.
DocChars == {"a", "A"}
\* The characters typed into the line edits of the find widget.
InputChars == {"a", "A", Space}
\* The characters of the documents and inputs of the replace dialog.
DlgChars == {"a", "A", "-"}

\* All sequences over S of length at most n.
SeqsUpTo(S, n) == UNION {[1..k -> S] : k \in 0..n}

Max(a, b) == IF a >= b THEN a ELSE b
Min(a, b) == IF a <= b THEN a ELSE b

\* Unicode simple case folding of one character (Qt::CaseInsensitive).
Fold(c) == IF c = "A" THEN "a" ELSE IF c = "T" THEN "t" ELSE c

\* QChar::isLetterOrNumber
IsLetterOrNumber(c) == c \in Letters

\* str.isspace for the characters a QLineEdit can hold.
IsSpace(c) == c = Space

\* text[from:to] with 0-based half-open offsets.
Slice(text, from, to) == SubSeq(text, from + 1, to)

\* Whether sub occurs in text at 0-based offset i under the case option.
MatchAt(text, sub, i, cs) ==
    /\ i >= 0
    /\ i + Len(sub) <= Len(text)
    /\ \A k \in 1..Len(sub) :
          IF cs THEN text[i + k] = sub[k]
                ELSE Fold(text[i + k]) = Fold(sub[k])

\* QString::indexOf(sub, from, sensitivity): the first offset >= from where
\* sub occurs, or -1.
IndexOf(text, sub, from, cs) ==
    LET hits == {i \in Max(from, 0)..(Len(text) - Len(sub)) : MatchAt(text, sub, i, cs)}
    IN  IF hits = {} THEN -1 ELSE CHOOSE i \in hits : \A j \in hits : i <= j

\* The whole-word test of QTextDocument's findInBlock: the candidate
\* [start, end) is rejected when a letter or digit precedes or follows it.
NotWholeWord(text, start, end) ==
    \/ (start # 0 /\ IsLetterOrNumber(text[start]))
    \/ (end # Len(text) /\ IsLetterOrNumber(text[end + 1]))

\* findInBlock, forward: search from offset; a candidate that is not a
\* whole word moves the offset to end + 1.
RECURSIVE FindInBlock(_, _, _, _, _)
FindInBlock(text, sub, offset, cs, ww) ==
    IF offset < 0 \/ offset > Len(text) THEN -1
    ELSE LET idx == IndexOf(text, sub, offset, cs)
         IN  IF idx = -1 THEN -1
             ELSE IF ww /\ NotWholeWord(text, idx, idx + Len(sub))
                  THEN FindInBlock(text, sub, idx + Len(sub) + 1, cs, ww)
                  ELSE idx

\* QTextDocument.find(subString, cursor, flags), forward, as called by the
\* handlers: from is the given cursor's selectionEnd; the result is the
\* start offset of the found selection [start, start + Len(sub)), or -1 for
\* a null cursor.
DocFind(text, sub, from, cs, ww) ==
    IF sub = <<>> THEN -1 ELSE FindInBlock(text, sub, from, cs, ww)


(***************************************************************************)
(* State.                                                                  *)
(***************************************************************************)
VARIABLES
    text,                 \* content of the current editor's document
    cursor,               \* the editor's text cursor: [anchor, position]
    is_modified,          \* EditorTab.is_modified
    edit_block_depth,     \* edit blocks begun and not ended on the editor's document
    find_widget,          \* "none" (not created), "shown" or "hidden"
    find_input,           \* text of the find widget's line edit
    find_case_sensitive,  \* the Match Case check box
    find_matches,         \* MainWindow.find_matches: start offsets
    current_match_index,  \* MainWindow.current_match_index
    dialog_open,          \* a FindReplaceDialog is executing (modal)
    dlg_find_input,       \* dialog.find_input text
    dlg_replace_input,    \* dialog.replace_input text
    dlg_case_sensitive,   \* dialog.case_sensitive
    dlg_whole_words,      \* dialog.whole_words
    dlg_wrap_around,      \* dialog.wrap_around
    replaced_count,       \* count of the last "Replaced n occurrences" report, -1: none
    ra_pc,                \* dialog_replace_all taken step by step: "idle", "loop", "done"
    ra_pos,               \* position of its local cursor (end of its selection)
    ra_count,             \* its local count
    file_path,            \* EditorTab.file_path of the current editor, "": None
    custom_tab_name,      \* EditorTab.custom_tab_name of the current editor, "": None
    current_index,        \* tab_widget.currentIndex(), -1: the tab widget has no tab
    other_tabs,           \* the editors of the tabs that are not current, in the order of
                          \* the tabs: [text, cursor, is_modified, edit_block_depth,
                          \* file_path, custom_tab_name]
    window,               \* the main window: "open", "closed", or "failed" (its
                          \* constructor raised)
    files,                \* the files on disk: path -> [exists, content]
    recent_files,         \* config["recent_files"]
    last_session,         \* config["last_session"]["tabs"]
    an_offset,            \* TextAnalyzer call: the cursor_position argument, given or left out
    an_result,            \* TextAnalyzer call: the operation run last and what it returned
    status_message        \* what statusBar().showMessage was last given, <<>>: nothing yet

vars == <<text, cursor, is_modified, edit_block_depth, find_widget, find_input,
          find_case_sensitive, find_matches, current_match_index,
          dialog_open, dlg_find_input, dlg_replace_input, dlg_case_sensitive,
          dlg_whole_words, dlg_wrap_around, replaced_count,
          ra_pc, ra_pos, ra_count, file_path, custom_tab_name, current_index,
          other_tabs, window, files, recent_files, last_session,
          an_offset, an_result, status_message>>

editorVars == <<text, cursor, is_modified, edit_block_depth>>
findVars == <<find_widget, find_input, find_case_sensitive, find_matches,
              current_match_index>>
dialogFields == <<dialog_open, dlg_find_input, dlg_replace_input,
                  dlg_case_sensitive, dlg_whole_words, dlg_wrap_around>>
loopVars == <<ra_pc, ra_pos, ra_count>>
dialogVars == <<dialogFields, replaced_count, loopVars>>
tabVars == <<other_tabs, current_index, file_path, custom_tab_name>>
windowVars == <<window, files, recent_files, last_session>>
analyzerVars == <<an_offset, an_result>>

\* str.strip() of the find input.
RECURSIVE LStrip(_)
LStrip(s) == IF s # <<>> /\ IsSpace(Head(s)) THEN LStrip(Tail(s)) ELSE s
RECURSIVE RStrip(_)
RStrip(s) ==
    IF s # <<>> /\ IsSpace(s[Len(s)]) THEN RStrip(SubSeq(s, 1, Len(s) - 1)) ELSE s
Strip(s) == RStrip(LStrip(s))

\* QTextCursor.setPosition(pos, mode): a position outside the document is
\* refused and leaves the cursor as it was.
SetPosition(cur, pos, keepAnchor, len) ==
    IF pos < 0 \/ pos > len THEN cur
    ELSE IF keepAnchor THEN [cur EXCEPT !.position = pos]
         ELSE [anchor |-> pos, position |-> pos]

SelectionStart(cur) == Min(cur.anchor, cur.position)
SelectionEnd(cur) == Max(cur.anchor, cur.position)
HasSelection(cur) == cur.anchor # cur.position

\* A fresh QTextCursor(document).
DocCursor == [anchor |-> 0, position |-> 0]

\* A mutant of FindAllScan: after a match the scan resumes one character
\* after its start instead of at its end.
RECURSIVE FindAllScan_ResumeAtStartPlusOne(_, _, _, _)
FindAllScan_ResumeAtStartPlusOne(doc, search_text, from, cs) ==
    LET start == DocFind(doc, search_text, from, cs, FALSE)
    IN  IF start = -1 THEN <<>>
        ELSE <<start>> \o FindAllScan_ResumeAtStartPlusOne(doc, search_text, start + 1, cs)

\* The scan loop of perform_find: document.find from the end of the last
\* found selection until a null cursor; collects selectionStart of each.
RECURSIVE FindAllScan(_, _, _, _)
FindAllScan(doc, search_text, from, cs) ==
    LET start == DocFind(doc, search_text, from, cs, FALSE)
    IN  IF start = -1 THEN <<>>
        ELSE <<start>> \o FindAllScan(doc, search_text, start + Len(search_text), cs)

\* jump_to_match(index): the cursor it gives the editor.
JumpCursor(doc, matches, index, input) ==
    LET position == matches[index + 1]
        c1 == SetPosition(DocCursor, position, FALSE, Len(doc))
    IN  SetPosition(c1, position + Len(input), TRUE, Len(doc))

(***************************************************************************)
(* Construction: the window shows one editor tab; the document holds what  *)
(* the tab was opened with (new_tab sets the content of an opened or       *)
(* restored file), the cursor is at the start.                             *)
(***************************************************************************)
InitTexts == SeqsUpTo(DocChars, MaxLen)
FindInputs == SeqsUpTo(InputChars, MaxTermLen)

InitFind ==
    /\ find_widget = "none"
    /\ find_input = <<>>
    /\ find_case_sensitive = FALSE
    /\ find_matches = <<>>
    /\ current_match_index = -1

\* No replace dialog is open and Replace All has not run.
InitNoDialog ==
    /\ dialog_open = FALSE
    /\ dlg_find_input = <<>>
    /\ dlg_replace_input = <<>>
    /\ dlg_case_sensitive = FALSE
    /\ dlg_whole_words = FALSE
    /\ dlg_wrap_around = TRUE
    /\ replaced_count = -1
    /\ ra_pc = "idle"
    /\ ra_pos = 0
    /\ ra_count = 0

\* The paths of files, and the value of a file_path or custom_tab_name that
\* is None (the code tests both for truth only).
Paths == {"f", "g"}
NoPath == ""
NoName == ""

\* The window holds the one tab, an untitled one.
InitOneTab ==
    /\ other_tabs = <<>>
    /\ current_index = 0
    /\ file_path = NoPath
    /\ custom_tab_name = NoName

\* A path that does not exist on disk.
NoFile == [exists |-> FALSE, content |-> <<>>]

\* The window is open, the disk holds none of the files and the
\* configuration is the default one of load_config.
InitNoFiles ==
    /\ window = "open"
    /\ files = [p \in Paths |-> NoFile]
    /\ recent_files = <<>>
    /\ last_session = <<>>

\* No call of the text analyzer has been made.
NoResult == [op |-> "none", value |-> <<>>]
InitNoAnalysis ==
    /\ an_offset = [given |-> TRUE, value |-> 0]
    /\ an_result = NoResult

\* The status bar shows no message.
InitStatus == status_message = <<>>

Init ==
    /\ text \in InitTexts
    /\ cursor = DocCursor
    /\ is_modified = FALSE
    /\ edit_block_depth = 0
    /\ InitFind
    /\ InitNoDialog
    /\ InitOneTab
    /\ InitNoAnalysis
    /\ InitStatus
    /\ InitNoFiles

(***************************************************************************)
(* The user edits the document in the editor.                              *)
(***************************************************************************)
\* Typing a character: it replaces the selection, the cursor ends after it;
\* textChanged runs EditorTab.on_text_changed and then
\* MainWindow.on_editor_text_changed, which touches the tab title and the
\* statistics only.
\* EditorTab.is_modified after the document's content has changed:
\* on_text_changed sets it when the document emits contentsChanged, which
\* it does when no edit block is open on it (QTextDocument defers the
\* signal to the end of the outermost block).
AfterEdit(modified, depth) == IF depth = 0 THEN TRUE ELSE modified

TypeChar(c) ==
    LET s == SelectionStart(cursor)
        e == SelectionEnd(cursor)
        new == Slice(text, 0, s) \o <<c>> \o Slice(text, e, Len(text))
    IN  /\ Len(new) <= MaxLen
        /\ text' = new
        /\ cursor' = [anchor |-> s + 1, position |-> s + 1]
        /\ is_modified' = AfterEdit(is_modified, edit_block_depth)
        /\ UNCHANGED <<edit_block_depth, findVars, dialogVars, tabVars, windowVars, analyzerVars,
                       status_message>>

\* Backspace: removes the selection, or the character before the cursor.
Backspace ==
    LET s == SelectionStart(cursor)
        e == SelectionEnd(cursor)
        from == IF HasSelection(cursor) THEN s ELSE s - 1
    IN  /\ from >= 0
        /\ text' = Slice(text, 0, from) \o Slice(text, e, Len(text))
        /\ cursor' = [anchor |-> from, position |-> from]
        /\ is_modified' = AfterEdit(is_modified, edit_block_depth)
        /\ UNCHANGED <<edit_block_depth, findVars, dialogVars, tabVars, windowVars, analyzerVars,
                       status_message>>

\* A click in the editor places the cursor.
MoveCursor(p) ==
    /\ p \in 0..Len(text)
    /\ cursor # [anchor |-> p, position |-> p]
    /\ cursor' = [anchor |-> p, position |-> p]
    /\ UNCHANGED <<text, is_modified, edit_block_depth, findVars, dialogVars, tabVars, windowVars, analyzerVars, status_message>>

(***************************************************************************)
(* The inline find widget.                                                 *)
(***************************************************************************)
show_find_dialog ==
    /\ ~dialog_open
    /\ find_widget # "shown"
    /\ find_widget' = "shown"
    /\ UNCHANGED <<editorVars, find_input, find_case_sensitive, find_matches,
                   current_match_index, dialogVars, tabVars, windowVars, analyzerVars, status_message>>

\* The user changes the text of the find input; only returnPressed is
\* connected, so nothing else happens.
SetFindInput(t) ==
    /\ ~dialog_open
    /\ find_widget = "shown"
    /\ t # find_input
    /\ find_input' = t
    /\ UNCHANGED <<editorVars, find_widget, find_case_sensitive, find_matches,
                   current_match_index, dialogVars, tabVars, windowVars, analyzerVars, status_message>>

\* A mutant of PerformFindEffect: the first match is not made current.
PerformFindEffect_NoCurrent(cs) ==
    LET search_text == Strip(find_input)
    IN  IF search_text = <<>>
        THEN /\ status_message' = <<"Please enter text to search">>
             /\ UNCHANGED <<cursor, find_matches, current_match_index>>
        ELSE /\ find_matches' = FindAllScan(text, search_text, 0, cs)
             /\ current_match_index' = -1
             /\ status_message' = <<"Found matches", Len(find_matches')>>
             /\ UNCHANGED cursor

\* The body of perform_find under case option cs: what it does to the
\* cursor, find_matches, current_match_index and the status bar.  With
\* nothing to search for it shows a message and returns before touching the
\* others.
PerformFindEffect(cs) ==
    LET search_text == Strip(find_input)
    IN  IF search_text = <<>>
        THEN /\ status_message' = <<"Please enter text to search">>
             /\ UNCHANGED <<cursor, find_matches, current_match_index>>
        ELSE LET matches == FindAllScan(text, search_text, 0, cs)
             IN  /\ find_matches' = matches
                 /\ IF matches # <<>>
                    THEN /\ current_match_index' = 0
                         /\ cursor' = JumpCursor(text, matches, 0, find_input)
                         /\ status_message' = <<"Found matches", Len(matches)>>
                    ELSE /\ current_match_index' = -1
                         /\ status_message' = <<"No matches found">>
                         /\ UNCHANGED cursor

\* Return pressed in the find input, or the Search button.
perform_find ==
    /\ ~dialog_open
    /\ find_widget = "shown"
    /\ PerformFindEffect(find_case_sensitive)
    /\ UNCHANGED <<text, is_modified, edit_block_depth, find_widget, find_input, find_case_sensitive, dialogVars, tabVars, windowVars, analyzerVars>>

\* The Match Case check box: stateChanged is connected to perform_find.
ToggleMatchCase ==
    /\ ~dialog_open
    /\ find_widget = "shown"
    /\ find_case_sensitive' = ~find_case_sensitive
    /\ PerformFindEffect(~find_case_sensitive)
    /\ UNCHANGED <<text, is_modified, edit_block_depth, find_widget, find_input, dialogVars, tabVars, windowVars, analyzerVars>>

\* A mutant of NavigateTo: the index is stored without the wrap.
NavigateTo_NoWrap(step) ==
    LET index == current_match_index + step
    IN  /\ current_match_index' = index
        /\ cursor' = IF index \in 0..(Len(find_matches) - 1)
                     THEN JumpCursor(text, find_matches, index, find_input)
                     ELSE cursor
        /\ status_message' = <<"Match", index + 1, Len(find_matches)>>
        /\ UNCHANGED find_matches

\* The navigation step of find_next (step 1) and find_previous (step -1)
\* on a non-empty find_matches: move the index with wrap-around and jump.
NavigateTo(step) ==
    LET index == (current_match_index + step) % Len(find_matches)
    IN  /\ current_match_index' = index
        /\ cursor' = JumpCursor(text, find_matches, index, find_input)
        /\ status_message' = <<"Match", index + 1, Len(find_matches)>>
        /\ UNCHANGED find_matches

find_next ==
    /\ ~dialog_open
    /\ find_widget = "shown"
    /\ IF find_matches = <<>>
       THEN PerformFindEffect(find_case_sensitive)
       ELSE NavigateTo(1)
    /\ UNCHANGED <<text, is_modified, edit_block_depth, find_widget, find_input, find_case_sensitive, dialogVars, tabVars, windowVars, analyzerVars>>

find_previous ==
    /\ ~dialog_open
    /\ find_widget = "shown"
    /\ IF find_matches = <<>>
       THEN PerformFindEffect(find_case_sensitive)
       ELSE NavigateTo(-1)
    /\ UNCHANGED <<text, is_modified, edit_block_depth, find_widget, find_input, find_case_sensitive, dialogVars, tabVars, windowVars, analyzerVars>>

\* A mutant of close_find_widget: the selection is removed from the document
\* instead of cleared.
close_find_widget_RemovesSelection ==
    /\ ~dialog_open
    /\ find_widget = "shown"
    /\ text' = Slice(text, 0, SelectionStart(cursor))
                  \o Slice(text, SelectionEnd(cursor), Len(text))
    /\ is_modified' = (is_modified \/ HasSelection(cursor))
    /\ UNCHANGED edit_block_depth
    /\ cursor' = [anchor |-> SelectionStart(cursor), position |-> SelectionStart(cursor)]
    /\ find_widget' = "hidden"
    /\ find_matches' = <<>>
    /\ current_match_index' = -1
    /\ UNCHANGED <<find_input, find_case_sensitive, dialogVars, tabVars, windowVars, analyzerVars,
                   status_message>>

\* Escape or the close button of the find widget.
close_find_widget ==
    /\ ~dialog_open
    /\ find_widget = "shown"
    /\ cursor' = [anchor |-> cursor.position, position |-> cursor.position]
    /\ find_widget' = "hidden"
    /\ find_matches' = <<>>
    /\ current_match_index' = -1
    /\ UNCHANGED <<text, is_modified, edit_block_depth, find_input, find_case_sensitive, dialogVars, tabVars, windowVars, analyzerVars, status_message>>

EditAction ==
    \/ \E c \in DocChars : TypeChar(c)
    \/ Backspace

Next ==
    \/ EditAction
    \/ \E p \in 0..MaxLen : MoveCursor(p)
    \/ show_find_dialog
    \/ \E t \in FindInputs : SetFindInput(t)
    \/ perform_find
    \/ ToggleMatchCase
    \/ find_next
    \/ find_previous
    \/ close_find_widget

Spec == Init /\ [][Next]_vars


(***************************************************************************)
(* The find session over a document that is not edited.                    *)
(***************************************************************************)
NextSearchOnly ==
    \/ \E p \in 0..MaxLen : MoveCursor(p)
    \/ show_find_dialog
    \/ \E t \in FindInputs : SetFindInput(t)
    \/ perform_find
    \/ ToggleMatchCase
    \/ find_next
    \/ find_previous
    \/ close_find_widget

SpecSearchOnly == Init /\ [][NextSearchOnly]_vars

(***************************************************************************)
(* The highlight-all scan taken alone: the find widget is shown with a     *)
(* find input and a Match Case setting over some document, and the search  *)
(* handlers run.                                                           *)
(***************************************************************************)
ScenarioTexts == { <<"a", "b", "c", "a", "b", "c", "a", "b", "c">> }
ScenarioInputs == { <<"a", "b", "c", "a", "b", "c">> }

InitScan ==
    /\ text \in InitTexts \cup ScenarioTexts
    /\ cursor = DocCursor
    /\ is_modified = FALSE
    /\ edit_block_depth = 0
    /\ find_widget = "shown"
    /\ find_input \in SeqsUpTo(InputChars, MaxScanTermLen) \cup ScenarioInputs
    /\ find_case_sensitive \in BOOLEAN
    /\ find_matches = <<>>
    /\ current_match_index = -1
    /\ InitNoDialog
    /\ InitOneTab
    /\ InitNoAnalysis
    /\ InitStatus
    /\ InitNoFiles

NextScan ==
    \/ perform_find
    \/ ToggleMatchCase
    \/ find_next
    \/ find_previous
    \/ close_find_widget

SpecScan == InitScan /\ [][NextScan]_vars

(***************************************************************************)
(* Properties of the find-widget session.                                  *)
(***************************************************************************)
\* What a fresh scan of the present document for the present find input
\* and Match Case setting collects.
FreshMatches == FindAllScan(text, Strip(find_input), 0, find_case_sensitive)

\* C2 (as claimed): every edit of the document and every dismissal of the
\* find widget leaves the session idle: find_matches empty and
\* current_match_index -1.
C2_EditOrCloseResetsSession ==
    [][(EditAction \/ close_find_widget)
          => (find_matches' = <<>> /\ current_match_index' = -1)]_vars

\* C3: the starts collected by perform_find are strictly ascending and the
\* spans [start, start + length of the searched term) do not overlap, each
\* within the document; "abcabcabc" searched for "abcabc" gives exactly the
\* one match at 0.
C3_MatchesAscendingNonOverlapping ==
    LET n == Len(Strip(find_input))
    IN  /\ \A i \in 1..Len(find_matches) :
              /\ 0 <= find_matches[i]
              /\ find_matches[i] + n <= Len(text)
              /\ i < Len(find_matches) => find_matches[i] + n <= find_matches[i + 1]
        /\ find_matches # <<>> => n > 0
        /\ (/\ text \in ScenarioTexts
            /\ Strip(find_input) \in ScenarioInputs
            /\ find_matches # <<>>) => find_matches = <<0>>

\* C3 witness: a scan has collected a match of a term of two or more
\* characters and passed over an occurrence that overlaps it.
C3_Witness ==
    /\ find_matches # <<>>
    /\ Len(Strip(find_input)) >= 2
    /\ \E i \in (find_matches[1] + 1)..(find_matches[1] + Len(Strip(find_input)) - 1) :
          MatchAt(text, Strip(find_input), i, find_case_sensitive)

\* C7 (as claimed): find_next on a non-empty find_matches moves the index to
\* (current + 1) mod count and keeps find_matches; on an empty find_matches
\* it changes nothing: find_matches stays empty, the index stays -1.
C7_FindNextNoOpOnEmpty ==
    [][find_next =>
          IF find_matches # <<>>
          THEN /\ current_match_index' = (current_match_index + 1) % Len(find_matches)
               /\ find_matches' = find_matches
          ELSE /\ find_matches' = <<>>
               /\ current_match_index' = -1]_vars

\* C7 (amended): find_next on a non-empty find_matches moves the index to
\* (current + 1) mod count, wrapping to 0 after the last match, and keeps
\* find_matches as it is (no new scan, also when the document has changed
\* since); on an empty find_matches it runs perform_find: find_matches
\* becomes what a scan for the stripped find input collects, with index 0
\* when that is non-empty and -1 otherwise.
C7_FindNextCyclesOrSearches ==
    [][find_next =>
          IF find_matches # <<>>
          THEN /\ current_match_index' = (current_match_index + 1) % Len(find_matches)
               /\ current_match_index' \in 0..(Len(find_matches) - 1)
               /\ (current_match_index = Len(find_matches) - 1 => current_match_index' = 0)
               /\ find_matches' = find_matches
          ELSE /\ find_matches' = FreshMatches
               /\ current_match_index' = IF FreshMatches = <<>> THEN -1 ELSE 0]_vars

\* C7 witness: the first of several matches is current and selected while
\* find_matches is no longer what a scan of the document would give.
C7_Witness ==
    /\ Len(find_matches) >= 2
    /\ current_match_index = 0
    /\ find_matches # FreshMatches
    /\ HasSelection(cursor)
    /\ cursor = JumpCursor(text, find_matches, 0, find_input)

\* C8 (as claimed): find_previous on a non-empty find_matches moves the
\* index to (current - 1) mod count; on an empty find_matches it changes
\* neither find_matches nor the index.
C8_FindPreviousNoOpOnEmpty ==
    [][find_previous =>
          IF find_matches # <<>>
          THEN current_match_index' = (current_match_index - 1) % Len(find_matches)
          ELSE /\ find_matches' = find_matches
               /\ current_match_index' = current_match_index]_vars

\* C8 (amended): find_previous on a non-empty find_matches moves the index
\* to (current - 1) mod count, wrapping from 0 to the last match, and keeps
\* find_matches; on an empty find_matches it runs perform_find, as find_next
\* does.
C8_FindPreviousCyclesOrSearches ==
    [][find_previous =>
          IF find_matches # <<>>
          THEN /\ current_match_index' = (current_match_index - 1) % Len(find_matches)
               /\ current_match_index' \in 0..(Len(find_matches) - 1)
               /\ (current_match_index = 0 => current_match_index' = Len(find_matches) - 1)
               /\ find_matches' = find_matches
          ELSE /\ find_matches' = FreshMatches
               /\ current_match_index' = IF FreshMatches = <<>> THEN -1 ELSE 0]_vars

\* C8 witness: the last of several matches is current and selected while
\* find_matches is no longer what a scan of the document would give.
C8_Witness ==
    /\ Len(find_matches) >= 2
    /\ current_match_index = Len(find_matches) - 1
    /\ find_matches # FreshMatches
    /\ HasSelection(cursor)
    /\ cursor = JumpCursor(text, find_matches, current_match_index, find_input)

\* C9: the current match index is -1 exactly when find_matches is empty and
\* otherwise lies in 0 .. len(find_matches) - 1.
C9_IndexInRange ==
    /\ (current_match_index = -1) <=> (find_matches = <<>>)
    /\ find_matches # <<>> =>
          (0 <= current_match_index /\ current_match_index < Len(find_matches))

\* C9 witness: navigation has reached a match other than the first.
C9_Witness ==
    /\ Len(find_matches) >= 2
    /\ current_match_index >= 1
    /\ find_widget = "shown"

\* C10 (as claimed), over a document that is not edited and with a
\* non-empty term in the find input: find_next and find_previous never
\* navigate with a find_matches computed for another term or Match Case
\* setting: after either, find_matches is what a scan for the present find
\* input and setting collects.
C10_NavigationUsesPresentQuery ==
    [][((find_next \/ find_previous) /\ Strip(find_input) # <<>>)
          => find_matches' = FreshMatches]_vars

(***************************************************************************)
(* The Find & Replace dialog: Replace All.                                 *)
(***************************************************************************)
\* The editor's text cursor follows the edits another cursor makes in the
\* document: the span [s, e) is replaced by n characters.
AdjustPosition(p, s, e, n) ==
    IF p < s THEN p
    ELSE IF p < e THEN s + n
    ELSE p - (e - s) + n

\* A mutant of ReplaceAllStep: the replacement is inserted at the start of
\* the match and the matched text is left in place.
ReplaceAllStep_KeepsMatch(st, search_text, replace_text, cs, ww) ==
    LET start == DocFind(st.doc, search_text, st.pos, cs, ww)
    IN  IF start = -1 THEN [st EXCEPT !.null = TRUE]
        ELSE [doc   |-> Slice(st.doc, 0, start) \o replace_text
                           \o Slice(st.doc, start, Len(st.doc)),
              pos   |-> start + Len(replace_text) + Len(search_text),
              count |-> st.count + 1,
              cur   |-> st.cur,
              null  |-> FALSE]

\* A mutant of ReplaceAllStep: after the insertion the local cursor is left
\* at the start of the inserted text.
ReplaceAllStep_CursorBeforeInsert(st, search_text, replace_text, cs, ww) ==
    LET start == DocFind(st.doc, search_text, st.pos, cs, ww)
        end   == start + Len(search_text)
    IN  IF start = -1 THEN [st EXCEPT !.null = TRUE]
        ELSE [doc   |-> Slice(st.doc, 0, start) \o replace_text
                           \o Slice(st.doc, end, Len(st.doc)),
              pos   |-> start,
              count |-> st.count + 1,
              cur   |-> st.cur,
              null  |-> FALSE]

\* One pass of the loop of dialog_replace_all on its local state: doc (the
\* document), pos (selectionEnd of the local cursor), count, cur (the
\* editor's own cursor) and null (find returned a null cursor: the loop
\* breaks).  find selects [start, end); insertText replaces the selection
\* and leaves the local cursor after the inserted text.
ReplaceAllStep(st, search_text, replace_text, cs, ww) ==
    LET start == DocFind(st.doc, search_text, st.pos, cs, ww)
        end   == start + Len(search_text)
        n     == Len(replace_text)
    IN  IF start = -1 THEN [st EXCEPT !.null = TRUE]
        ELSE [doc   |-> Slice(st.doc, 0, start) \o replace_text
                           \o Slice(st.doc, end, Len(st.doc)),
              pos   |-> start + n,
              count |-> st.count + 1,
              cur   |-> [anchor   |-> AdjustPosition(st.cur.anchor, start, end, n),
                         position |-> AdjustPosition(st.cur.position, start, end, n)],
              null  |-> FALSE]

\* A mutant of ReplaceAllRun: the loop is left after the first replacement.
ReplaceAllRun_StopsAfterFirst(st, search_text, replace_text, cs, ww) ==
    LET s1 == ReplaceAllStep(st, search_text, replace_text, cs, ww)
    IN  [s1 EXCEPT !.null = TRUE]

\* The loop of dialog_replace_all run until find returns a null cursor.
RECURSIVE ReplaceAllRun(_, _, _, _, _)
ReplaceAllRun(st, search_text, replace_text, cs, ww) ==
    IF st.null THEN st
    ELSE ReplaceAllRun(ReplaceAllStep(st, search_text, replace_text, cs, ww),
                       search_text, replace_text, cs, ww)

\* The local state of dialog_replace_all when its loop is entered: a fresh
\* cursor at position 0 and count 0.
ReplaceAllStart(doc, cur) ==
    [doc |-> doc, pos |-> 0, count |-> 0, cur |-> cur, null |-> FALSE]

\* Replace All as a function of the document and the dialog's inputs.
ReplaceAllResult(doc, cur, search_text, replace_text, cs, ww) ==
    ReplaceAllRun(ReplaceAllStart(doc, cur), search_text, replace_text, cs, ww)

\* Replacements longer than the term are not made in documents longer than
\* MaxDlgLen, to keep the model finite.
WithinModel(doc, search_text, replace_text) ==
    Len(replace_text) > Len(search_text) => Len(doc) <= MaxDlgLen

\* Most edit blocks left open on one document.
MaxEditBlocks == 2

\* cursor.endEditBlock(): ends the innermost edit block of the cursor's
\* document; a null cursor has no document and the call does nothing.
EndEditBlock(depth, null) == IF null THEN depth ELSE depth - 1

\* The Replace All button, the whole handler.  beginEditBlock is called on
\* the cursor made from the document; the inserts are made inside that
\* block; endEditBlock is called on what the variable cursor holds after the
\* loop, the cursor the last find returned.
dialog_replace_all ==
    /\ dialog_open
    /\ ra_pc = "idle"
    /\ WithinModel(text, dlg_find_input, dlg_replace_input)
    /\ dlg_find_input # <<>> => edit_block_depth < MaxEditBlocks
    /\ IF dlg_find_input = <<>>
       THEN UNCHANGED <<text, cursor, is_modified, edit_block_depth, replaced_count, status_message>>
       ELSE LET fin == ReplaceAllResult(text, cursor, dlg_find_input, dlg_replace_input,
                                        dlg_case_sensitive, dlg_whole_words)
                begun == edit_block_depth + 1
            IN  /\ text' = fin.doc
                /\ cursor' = fin.cur
                /\ is_modified' = IF fin.count > 0 THEN AfterEdit(is_modified, begun)
                                                   ELSE is_modified
                /\ edit_block_depth' = EndEditBlock(begun, fin.null)
                /\ replaced_count' = fin.count
                /\ status_message' = <<"Replaced occurrences", fin.count>>
    /\ UNCHANGED <<findVars, dialogFields, loopVars, tabVars, windowVars, analyzerVars>>

\* The user toggles an option of the dialog or retypes one of its inputs.
ToggleDlgCase ==
    /\ dialog_open /\ ra_pc = "idle"
    /\ dlg_case_sensitive' = ~dlg_case_sensitive
    /\ UNCHANGED <<editorVars, findVars, dialog_open, dlg_find_input, dlg_replace_input,
                   dlg_whole_words, dlg_wrap_around, replaced_count, loopVars,
                   tabVars, windowVars, analyzerVars, status_message>>

ToggleDlgWholeWords ==
    /\ dialog_open /\ ra_pc = "idle"
    /\ dlg_whole_words' = ~dlg_whole_words
    /\ UNCHANGED <<editorVars, findVars, dialog_open, dlg_find_input, dlg_replace_input,
                   dlg_case_sensitive, dlg_wrap_around, replaced_count, loopVars,
                   tabVars, windowVars, analyzerVars, status_message>>

\* The inputs are exchanged: what was the replacement is searched for.
SwapDlgInputs ==
    /\ dialog_open /\ ra_pc = "idle"
    /\ dlg_find_input # dlg_replace_input
    /\ dlg_find_input' = dlg_replace_input
    /\ dlg_replace_input' = dlg_find_input
    /\ UNCHANGED <<editorVars, findVars, dialog_open, dlg_case_sensitive,
                   dlg_whole_words, dlg_wrap_around, replaced_count, loopVars,
                   tabVars, windowVars, analyzerVars, status_message>>

DlgTexts == SeqsUpTo(DlgChars, MaxDlgLen)
DlgInputs == SeqsUpTo(DlgChars, MaxDlgTermLen)

\* The dialog is open over some document with its inputs filled in.
InitDialog ==
    /\ text \in DlgTexts
    /\ cursor = DocCursor
    /\ is_modified = FALSE
    /\ edit_block_depth = 0
    /\ InitFind
    /\ dialog_open = TRUE
    /\ dlg_find_input \in DlgInputs
    /\ dlg_replace_input \in DlgInputs
    /\ dlg_case_sensitive \in BOOLEAN
    /\ dlg_whole_words \in BOOLEAN
    /\ dlg_wrap_around = TRUE
    /\ replaced_count = -1
    /\ ra_pc = "idle"
    /\ ra_pos = 0
    /\ ra_count = 0
    /\ InitOneTab
    /\ InitNoAnalysis
    /\ InitStatus
    /\ InitNoFiles

NextDialog ==
    \/ dialog_replace_all
    \/ ToggleDlgCase
    \/ ToggleDlgWholeWords
    \/ SwapDlgInputs

SpecDialog == InitDialog /\ [][NextDialog]_vars

(***************************************************************************)
(* Replace All taken one loop pass at a time (the handler's position is    *)
(* ra_pc); the event loop runs the handler to its end once it is called.   *)
(***************************************************************************)
\* Entry of dialog_replace_all up to the loop: an empty find input returns
\* at once; otherwise a fresh cursor at position 0 and count 0.
RA_Begin ==
    /\ dialog_open
    /\ ra_pc = "idle"
    /\ dlg_find_input # <<>> => edit_block_depth < MaxEditBlocks
    /\ IF dlg_find_input = <<>>
       THEN /\ ra_pc' = "done"
            /\ UNCHANGED <<ra_pos, ra_count, edit_block_depth>>
       ELSE /\ ra_pc' = "loop"
            /\ ra_pos' = 0
            /\ ra_count' = 0
            /\ edit_block_depth' = edit_block_depth + 1
    /\ UNCHANGED <<text, cursor, is_modified, findVars, dialogFields, replaced_count,
                   tabVars, windowVars, analyzerVars, status_message>>

\* One pass of the while loop: find from the local cursor; a null cursor
\* breaks the loop and the count is reported, otherwise the selection is
\* replaced and counted.
RA_Iterate ==
    /\ ra_pc = "loop"
    /\ LET st == ReplaceAllStep([doc |-> text, pos |-> ra_pos, count |-> ra_count,
                                 cur |-> cursor, null |-> FALSE],
                                dlg_find_input, dlg_replace_input,
                                dlg_case_sensitive, dlg_whole_words)
       IN  IF st.null
           THEN /\ ra_pc' = "done"
                /\ replaced_count' = ra_count
                /\ status_message' = <<"Replaced occurrences", ra_count>>
                /\ edit_block_depth' = EndEditBlock(edit_block_depth, st.null)
                /\ UNCHANGED <<text, cursor, is_modified, ra_pos, ra_count>>
           ELSE /\ text' = st.doc
                /\ cursor' = st.cur
                /\ is_modified' = AfterEdit(is_modified, edit_block_depth)
                /\ UNCHANGED edit_block_depth
                /\ ra_pos' = st.pos
                /\ ra_count' = st.count
                /\ UNCHANGED <<ra_pc, replaced_count, status_message>>
    /\ UNCHANGED <<findVars, dialogFields, tabVars, windowVars, analyzerVars>>

\* Replacements that hold the term and are longer than it.
GrowingReplacements == { <<"a", "a">>, <<"-", "a", "-">>, <<"A", "a">> }

\* The dialog is open over some document with its inputs filled in, and
\* Replace All is about to be clicked.
InitLoop ==
    /\ text \in SeqsUpTo(DlgChars, MaxLoopLen)
    /\ cursor = DocCursor
    /\ is_modified = FALSE
    /\ edit_block_depth = 0
    /\ InitFind
    /\ dialog_open = TRUE
    /\ dlg_find_input \in SeqsUpTo(DlgChars, MaxLoopTermLen)
    /\ dlg_replace_input \in SeqsUpTo(DlgChars, MaxLoopTermLen) \cup GrowingReplacements
    /\ dlg_case_sensitive \in BOOLEAN
    /\ dlg_whole_words \in BOOLEAN
    /\ dlg_wrap_around = TRUE
    /\ replaced_count = -1
    /\ ra_pc = "idle"
    /\ ra_pos = 0
    /\ ra_count = 0
    /\ InitOneTab
    /\ InitNoAnalysis
    /\ InitStatus
    /\ InitNoFiles

NextLoop ==
    \/ RA_Begin
    \/ RA_Iterate

\* The handler runs on the event loop's thread and is never preempted:
\* once called it takes its next step as long as it has one.
SpecReplaceLoop == InitLoop /\ [][NextLoop]_vars /\ WF_vars(NextLoop)

(***************************************************************************)
(* Properties of Replace All.                                              *)
(***************************************************************************)
\* The matches of the term in a document that is not changed meanwhile:
\* find from the end of the last match until it returns a null cursor.
RECURSIVE OriginalMatches(_, _, _, _, _)
OriginalMatches(doc, term, from, cs, ww) ==
    LET start == DocFind(doc, term, from, cs, ww)
    IN  IF start = -1 THEN <<>>
        ELSE <<start>> \o OriginalMatches(doc, term, start + Len(term), cs, ww)

\* doc from offset from on, with each of the spans [starts[i], starts[i] + n)
\* replaced by repl.
RECURSIVE Substitute(_, _, _, _, _)
Substitute(doc, from, starts, n, repl) ==
    IF starts = <<>> THEN Slice(doc, from, Len(doc))
    ELSE Slice(doc, from, Head(starts)) \o repl
            \o Substitute(doc, Head(starts) + n, Tail(starts), n, repl)

FoldAll(s) == [i \in 1..Len(s) |-> Fold(s[i])]

\* sub occurs somewhere in s, compared under the case option.
Occurs(sub, s, cs) == \E i \in 0..Len(s) : MatchAt(s, sub, i, cs)

\* A non-empty end of x is a beginning of y, compared under the case option.
EndMeetsStart(x, y, cs) ==
    \E k \in 1..Min(Len(x), Len(y)) :
        MatchAt(y, SubSeq(x, Len(x) - k + 1, Len(x)), 0, cs)

\* The matches of the dialog's term in the present document.
DlgMatches ==
    OriginalMatches(text, dlg_find_input, 0, dlg_case_sensitive, dlg_whole_words)

\* C1 (as claimed): Replace All with a non-empty term gives the document
\* obtained by substituting the replacement for each match found in the
\* original document, and reports the number of those matches.
C1_ReplaceAllIsOnePassOverOriginal ==
    [][(dialog_replace_all /\ dlg_find_input # <<>>)
          => /\ text' = Substitute(text, 0, DlgMatches, Len(dlg_find_input),
                                   dlg_replace_input)
             /\ replaced_count' = Len(DlgMatches)]_vars

\* C4 (as claimed): Replace All with the replacement equal to the non-empty
\* term leaves the document as it was, under every setting of the options,
\* and reports the number of matches found.
C4_ReplaceByItselfKeepsDocument ==
    [][(dialog_replace_all /\ dlg_find_input # <<>>
                           /\ dlg_replace_input = dlg_find_input)
          => /\ text' = text
             /\ replaced_count' = Len(DlgMatches)]_vars

\* C4 (amended): Replace All with the replacement equal to the non-empty
\* term leaves the document as it was when matching is case-sensitive; when
\* it is not, the document is the same up to letter case (each match now
\* reads as the term is written).  Under every setting the count reported is
\* the number of matches found in the original document.
C4_ReplaceByItselfKeepsDocumentUpToCase ==
    [][(dialog_replace_all /\ dlg_find_input # <<>>
                           /\ dlg_replace_input = dlg_find_input)
          => /\ dlg_case_sensitive => text' = text
             /\ FoldAll(text') = FoldAll(text)
             /\ text' = Substitute(text, 0, DlgMatches, Len(dlg_find_input),
                                   dlg_find_input)
             /\ replaced_count' = Len(DlgMatches)]_vars

\* C4 witness: Replace All of a term by itself has replaced two or more
\* case-sensitive matches.
C4_Witness ==
    /\ dlg_find_input # <<>>
    /\ dlg_replace_input = dlg_find_input
    /\ dlg_case_sensitive
    /\ replaced_count >= 2
    /\ Len(DlgMatches) = replaced_count

\* The document after Replace All of the present replacement input by the
\* present find input, i.e. the way back.
WayBack(doc) ==
    ReplaceAllResult(doc, DocCursor, dlg_replace_input, dlg_find_input,
                     dlg_case_sensitive, dlg_whole_words).doc

\* C5 (as claimed): when term and replacement do not overlap and neither
\* occurs in the other, Replace All of the term by the replacement followed
\* by Replace All of the replacement by the term restores the document.
C5_RoundTripRestores ==
    [][(/\ dialog_replace_all
        /\ dlg_find_input # <<>>
        /\ dlg_replace_input # <<>>
        /\ ~Occurs(dlg_find_input, dlg_replace_input, dlg_case_sensitive)
        /\ ~Occurs(dlg_replace_input, dlg_find_input, dlg_case_sensitive)
        /\ ~EndMeetsStart(dlg_find_input, dlg_replace_input, dlg_case_sensitive)
        /\ ~EndMeetsStart(dlg_replace_input, dlg_find_input, dlg_case_sensitive))
          => WayBack(text') = text]_vars

\* C5 (amended): with case-sensitive matching and whole-word off, a
\* non-empty term and a non-empty replacement whose first character does
\* not occur in the document, Replace All of the term by the replacement
\* followed by Replace All of the replacement by the term restores the
\* document.
C5_RoundTripRestoresWhenReplacementIsNew ==
    [][(/\ dialog_replace_all
        /\ dlg_find_input # <<>>
        /\ dlg_replace_input # <<>>
        /\ dlg_case_sensitive
        /\ ~dlg_whole_words
        /\ \A i \in 1..Len(text) : text[i] # dlg_replace_input[1])
          => WayBack(text') = text]_vars

\* C5 witness: Replace All has put the replacement in two or more places of
\* a document that did not hold its first character, and the way back
\* differs from the document as it is now.
C5_Witness ==
    /\ dlg_find_input # <<>>
    /\ dlg_replace_input # <<>>
    /\ dlg_case_sensitive
    /\ ~dlg_whole_words
    /\ replaced_count >= 2
    /\ Len(OriginalMatches(text, dlg_replace_input, 0, TRUE, FALSE)) = replaced_count
    /\ \A i \in 1..Len(WayBack(text)) : WayBack(text)[i] # dlg_replace_input[1]
    /\ WayBack(text) # text

\* C6: Replace All terminates, and every pass that replaces a match starts
\* that match at or after the end of the text inserted by the pass before
\* and leaves the local cursor at the end of the text it inserts, so that
\* the part of the document still to be searched gets strictly shorter.
C6_ReplaceAllTerminates ==
    /\ <>(ra_pc = "done")
    /\ [][(RA_Iterate /\ ra_count' = ra_count + 1)
            => /\ ra_pos' - Len(dlg_replace_input) >= ra_pos
               /\ Len(text') - ra_pos' < Len(text) - ra_pos]_vars

\* C6 witness: Replace All has ended after two or more replacements by a
\* longer replacement that contains the term.
C6_Witness ==
    /\ ra_pc = "done"
    /\ ra_count >= 2
    /\ replaced_count = ra_count
    /\ Len(dlg_replace_input) > Len(dlg_find_input)
    /\ Occurs(dlg_find_input, dlg_replace_input, dlg_case_sensitive)

(***************************************************************************)
(* Several tabs.  find_matches and current_match_index are fields of the   *)
(* window; the document searched and jumped in is the current tab's.       *)
(***************************************************************************)
\* The editor of the current tab as the tab widget keeps it.
CurrentEditor == [text |-> text, cursor |-> cursor, is_modified |-> is_modified,
                  edit_block_depth |-> edit_block_depth, file_path |-> file_path,
                  custom_tab_name |-> custom_tab_name]

\* A sequence without its k-th element, and with x put in as its k-th.
RemoveAt(s, k) == SubSeq(s, 1, k - 1) \o SubSeq(s, k + 1, Len(s))
InsertAt(s, k, x) == SubSeq(s, 1, k - 1) \o <<x>> \o SubSeq(s, k, Len(s))

\* The editors of the tab widget in the order of the tabs: tab_widget.widget(i)
\* is Tabs[i + 1], tab_widget.count() is Len(Tabs).
Tabs ==
    IF current_index = -1 THEN <<>>
    ELSE InsertAt(other_tabs, current_index + 1, CurrentEditor)

\* The tab widget holds the editors tabs and its current index is index
\* (-1 when it holds none): the current editor is tabs[index + 1].
TabWidgetBecomes(tabs, index) ==
    /\ current_index' = index
    /\ IF index = -1
       THEN /\ text' = <<>>
            /\ cursor' = DocCursor
            /\ is_modified' = FALSE
            /\ edit_block_depth' = 0
            /\ file_path' = NoPath
            /\ custom_tab_name' = NoName
            /\ other_tabs' = <<>>
       ELSE /\ text' = tabs[index + 1].text
            /\ cursor' = tabs[index + 1].cursor
            /\ is_modified' = tabs[index + 1].is_modified
            /\ edit_block_depth' = tabs[index + 1].edit_block_depth
            /\ file_path' = tabs[index + 1].file_path
            /\ custom_tab_name' = tabs[index + 1].custom_tab_name
            /\ other_tabs' = RemoveAt(tabs, index + 1)

\* The user clicks another tab (the i-th of the others): the tab widget
\* makes its editor current and emits currentChanged; on_tab_changed sets
\* the window title and updates the status bar.
on_tab_changed(i) ==
    /\ ~dialog_open
    /\ window = "open"
    /\ i \in 1..Len(other_tabs)
    /\ TabWidgetBecomes(Tabs, IF i <= current_index THEN i - 1 ELSE i)
    /\ UNCHANGED <<findVars, dialogVars, windowVars, analyzerVars, status_message>>

\* Find inputs without white space.
PlainFindInputs == SeqsUpTo(DocChars, MaxTermLen)

\* Two tabs opened with a document each; the find widget is shown with a
\* term typed in.
InitTabs ==
    /\ text \in InitTexts
    /\ cursor = DocCursor
    /\ is_modified = FALSE
    /\ edit_block_depth = 0
    /\ file_path = NoPath
    /\ custom_tab_name = NoName
    /\ current_index = 0
    /\ other_tabs \in {<<[text |-> t, cursor |-> DocCursor, is_modified |-> FALSE,
                          edit_block_depth |-> 0, file_path |-> NoPath,
                          custom_tab_name |-> NoName]>> :
                          t \in InitTexts}
    /\ find_widget = "shown"
    /\ find_input \in PlainFindInputs
    /\ find_case_sensitive \in BOOLEAN
    /\ find_matches = <<>>
    /\ current_match_index = -1
    /\ InitNoDialog
    /\ InitNoAnalysis
    /\ InitStatus
    /\ InitNoFiles

NextTabs ==
    \/ \E i \in 1..Len(other_tabs) : on_tab_changed(i)
    \/ show_find_dialog
    \/ perform_find
    \/ ToggleMatchCase
    \/ find_next
    \/ find_previous
    \/ close_find_widget

SpecTabs == InitTabs /\ [][NextTabs]_vars

\* C11 (as claimed), over documents that are not edited and a find input
\* that is not retyped: find_next and find_previous work with the matches of
\* the document of the current tab, also after the current tab has changed:
\* after either, find_matches is what a scan of the current document
\* collects, and the span selected is an occurrence of the term in it.
C11_NavigationStaysInCurrentDocument ==
    [][((find_next \/ find_previous) /\ Strip(find_input) # <<>>)
          => /\ find_matches' = FreshMatches
             /\ find_matches' # <<>> =>
                   LET start == find_matches'[current_match_index' + 1]
                   IN  /\ MatchAt(text, Strip(find_input), start, find_case_sensitive)
                       /\ SelectionStart(cursor') = start
                       /\ SelectionEnd(cursor') = start + Len(Strip(find_input))]_vars

\* C12 (as claimed), over a document that is not edited and a find input
\* that is not retyped: the span the session has selected for the current
\* match, from the stored start to start + the length of the find input's
\* text, lies within the document (0 <= start < end <= len) and is exactly
\* the occurrence of the searched (stripped) term found at that start, also
\* when the find input has white space around the term.
C12_SelectedSpanIsTheOccurrence ==
    find_matches # <<>> =>
        LET start == find_matches[current_match_index + 1]
            end   == start + Len(find_input)
        IN  /\ 0 <= start /\ start < end /\ end <= Len(text)
            /\ SelectionStart(cursor) = start
            /\ SelectionEnd(cursor) = end
            /\ end = start + Len(Strip(find_input))
            /\ MatchAt(text, Strip(find_input), start, find_case_sensitive)

(***************************************************************************)
(* The Find & Replace dialog: Find Next, Find Previous and Replace.        *)
(* The documents here are one block (no line break).                       *)
(***************************************************************************)
\* QString::lastIndexOf(sub, from, sensitivity): the last offset <= from
\* where sub occurs, or -1.
LastIndexOf(doc, sub, from, cs) ==
    LET hits == {i \in 0..Min(from, Len(doc) - Len(sub)) : MatchAt(doc, sub, i, cs)}
    IN  IF hits = {} THEN -1 ELSE CHOOSE i \in hits : \A j \in hits : i >= j

\* findInBlock, backward: search back from offset; a candidate that is not
\* a whole word moves the offset to its start - 1.
RECURSIVE FindInBlockBackward(_, _, _, _, _)
FindInBlockBackward(doc, sub, offset, cs, ww) ==
    IF offset < 0 \/ offset > Len(doc) THEN -1
    ELSE LET idx == LastIndexOf(doc, sub, offset, cs)
         IN  IF idx = -1 THEN -1
             ELSE IF ww /\ NotWholeWord(doc, idx, idx + Len(sub))
                  THEN FindInBlockBackward(doc, sub, idx - 1, cs, ww)
                  ELSE idx

\* QTextDocument.find(subString, cursor, flags | FindBackward): from is the
\* given cursor's selectionStart; the search starts one character before
\* it and returns a null cursor when there is none.
DocFindBackward(doc, sub, from, cs, ww) ==
    IF sub = <<>> \/ from - 1 < 0 THEN -1
    ELSE FindInBlockBackward(doc, sub, from - 1, cs, ww)

\* The cursor document.find returns for a match at start: the match selected,
\* anchor at its start.
FoundCursor(start, sub) == [anchor |-> start, position |-> start + Len(sub)]

\* dialog_find_next: the start of the match it finds from the editor's
\* cursor, or -1: find from the cursor, and with wrap around a second find
\* from position 0 when the first returned a null cursor.
FindNextStart(doc, cur, search_text, cs, ww, wrap) ==
    LET first == DocFind(doc, search_text, SelectionEnd(cur), cs, ww)
    IN  IF first = -1 /\ wrap THEN DocFind(doc, search_text, 0, cs, ww) ELSE first

\* dialog_find_prev: the same backward; the second find is from the end of
\* the document (movePosition(End)).
FindPrevStart(doc, cur, search_text, cs, ww, wrap) ==
    LET first == DocFindBackward(doc, search_text, SelectionStart(cur), cs, ww)
    IN  IF first = -1 /\ wrap
        THEN DocFindBackward(doc, search_text, Len(doc), cs, ww)
        ELSE first

\* The editor's cursor after dialog_find_next / dialog_find_prev: the found
\* cursor, or the cursor as it was when nothing was found.
CursorAfterFind(cur, start, search_text) ==
    IF start = -1 THEN cur ELSE FoundCursor(start, search_text)

\* The status bar after dialog_find_next / dialog_find_prev: a null cursor
\* is reported, a found one is not.
MessageAfterFind(msg, start) ==
    IF start = -1 THEN <<"No more matches found">> ELSE msg

\* The Find Next button.
dialog_find_next ==
    /\ dialog_open
    /\ ra_pc = "idle"
    /\ IF dlg_find_input = <<>>
       THEN UNCHANGED <<cursor, status_message>>
       ELSE LET start == FindNextStart(text, cursor, dlg_find_input, dlg_case_sensitive,
                                       dlg_whole_words, dlg_wrap_around)
            IN  /\ cursor' = CursorAfterFind(cursor, start, dlg_find_input)
                /\ status_message' = MessageAfterFind(status_message, start)
    /\ UNCHANGED <<text, is_modified, edit_block_depth, findVars, dialogVars, tabVars, windowVars, analyzerVars>>

\* The Find Previous button.
dialog_find_prev ==
    /\ dialog_open
    /\ ra_pc = "idle"
    /\ IF dlg_find_input = <<>>
       THEN UNCHANGED <<cursor, status_message>>
       ELSE LET start == FindPrevStart(text, cursor, dlg_find_input, dlg_case_sensitive,
                                       dlg_whole_words, dlg_wrap_around)
            IN  /\ cursor' = CursorAfterFind(cursor, start, dlg_find_input)
                /\ status_message' = MessageAfterFind(status_message, start)
    /\ UNCHANGED <<text, is_modified, edit_block_depth, findVars, dialogVars, tabVars, windowVars, analyzerVars>>

\* A mutant of SelectionIsTerm: any selection counts.
SelectionIsTerm_AnySelection(doc, cur, search_text) == HasSelection(cur)

\* The test of dialog_replace: the editor's cursor has a selection and the
\* selected text equals the find input (compared as strings, whatever the
\* options).
SelectionIsTerm(doc, cur, search_text) ==
    /\ HasSelection(cur)
    /\ Slice(doc, SelectionStart(cur), SelectionEnd(cur)) = search_text

\* insertText on a copy of the editor's cursor: the selection is replaced;
\* the editor's own cursor ends after the inserted text, without selection.
ReplaceSelection(doc, cur, replace_text) ==
    LET s == SelectionStart(cur)
        e == SelectionEnd(cur)
        n == Len(replace_text)
    IN  [doc |-> Slice(doc, 0, s) \o replace_text \o Slice(doc, e, Len(doc)),
         cur |-> [anchor   |-> AdjustPosition(cur.anchor, s, e, n),
                  position |-> AdjustPosition(cur.position, s, e, n)]]

\* The Replace button: replace the selection when it is the term, then
\* dialog_find_next.
dialog_replace ==
    /\ dialog_open
    /\ ra_pc = "idle"
    /\ WithinModel(text, dlg_find_input, dlg_replace_input)
    /\ IF dlg_find_input = <<>>
       THEN UNCHANGED <<text, cursor, is_modified, edit_block_depth, status_message>>
       ELSE LET hit == SelectionIsTerm(text, cursor, dlg_find_input)
                rep == IF hit THEN ReplaceSelection(text, cursor, dlg_replace_input)
                              ELSE [doc |-> text, cur |-> cursor]
                msg == IF hit THEN <<"Replaced 1 occurrence">> ELSE status_message
                start == FindNextStart(rep.doc, rep.cur, dlg_find_input,
                                       dlg_case_sensitive, dlg_whole_words,
                                       dlg_wrap_around)
            IN  /\ text' = rep.doc
                /\ is_modified' = IF hit THEN AfterEdit(is_modified, edit_block_depth)
                                         ELSE is_modified
                /\ UNCHANGED edit_block_depth
                /\ cursor' = CursorAfterFind(rep.cur, start, dlg_find_input)
                /\ status_message' = MessageAfterFind(msg, start)
    /\ UNCHANGED <<findVars, dialogVars, tabVars, windowVars, analyzerVars>>

ToggleDlgWrap ==
    /\ dialog_open /\ ra_pc = "idle"
    /\ dlg_wrap_around' = ~dlg_wrap_around
    /\ UNCHANGED <<editorVars, findVars, dialog_open, dlg_find_input, dlg_replace_input,
                   dlg_case_sensitive, dlg_whole_words, replaced_count, loopVars,
                   tabVars, windowVars, analyzerVars, status_message>>

\* Longest document and longest input of Find Next / Find Previous /
\* Replace taken alone.
MaxFindLen == 3
MaxFindTermLen == 1

\* The dialog is open over some document, the cursor where the user left
\* it, the inputs filled in and the options set.
InitDialogFind ==
    /\ text \in SeqsUpTo(DlgChars, MaxFindLen)
    /\ cursor \in {[anchor |-> p, position |-> p] : p \in 0..Len(text)}
    /\ is_modified = FALSE
    /\ edit_block_depth = 0
    /\ InitFind
    /\ dialog_open = TRUE
    /\ dlg_find_input \in SeqsUpTo(DlgChars, MaxFindTermLen)
    /\ dlg_replace_input \in SeqsUpTo(DlgChars, MaxFindTermLen)
    /\ dlg_case_sensitive \in BOOLEAN
    /\ dlg_whole_words \in BOOLEAN
    /\ dlg_wrap_around \in BOOLEAN
    /\ replaced_count = -1
    /\ ra_pc = "idle"
    /\ ra_pos = 0
    /\ ra_count = 0
    /\ InitOneTab
    /\ InitNoAnalysis
    /\ InitStatus
    /\ InitNoFiles

NextDialogFind ==
    \/ dialog_find_next
    \/ dialog_find_prev
    \/ dialog_replace

SpecDialogFind == InitDialogFind /\ [][NextDialogFind]_vars

(***************************************************************************)
(* Properties of Find Next, Find Previous and Replace.                     *)
(***************************************************************************)
\* The starts of the occurrences of the dialog's term in the document that
\* the options accept: with whole words, those with no letter or digit
\* right before and right after.
DlgOccurrences ==
    {i \in 0..Len(text) :
        /\ MatchAt(text, dlg_find_input, i, dlg_case_sensitive)
        /\ dlg_whole_words => ~NotWholeWord(text, i, i + Len(dlg_find_input))}

Least(S) == CHOOSE i \in S : \A j \in S : i <= j
Greatest(S) == CHOOSE i \in S : \A j \in S : i >= j

\* The start Find Next is to select: the nearest occurrence at or after the
\* cursor (the end of its selection); failing that, with wrap around, the
\* first of the document; -1 for none.
NearestAhead ==
    LET ahead == {i \in DlgOccurrences : i >= SelectionEnd(cursor)}
    IN  IF ahead # {} THEN Least(ahead)
        ELSE IF dlg_wrap_around /\ DlgOccurrences # {} THEN Least(DlgOccurrences)
        ELSE -1

\* The start Find Previous is to select: the nearest occurrence starting
\* before the cursor (the start of its selection); failing that, with wrap
\* around, the last of the document; -1 for none.
NearestBehind ==
    LET behind == {i \in DlgOccurrences : i < SelectionStart(cursor)}
    IN  IF behind # {} THEN Greatest(behind)
        ELSE IF dlg_wrap_around /\ DlgOccurrences # {} THEN Greatest(DlgOccurrences)
        ELSE -1

\* C14 (as claimed): Find Next selects the nearest occurrence of the term
\* at or after the cursor and Find Previous the nearest before it; when
\* there is none in that direction, with wrap around they select the first
\* (the last) occurrence of the document, so that nothing is selected only
\* if the document holds no occurrence, and without wrap around they leave
\* the cursor where it is.
C14_FindFromCursorIsNearest ==
    [][/\ (dialog_find_next /\ dlg_find_input # <<>>)
            => cursor' = CursorAfterFind(cursor, NearestAhead, dlg_find_input)
       /\ (dialog_find_prev /\ dlg_find_input # <<>>)
            => cursor' = CursorAfterFind(cursor, NearestBehind, dlg_find_input)]_vars

\* The text the editor's cursor selects.
SelectedText == Slice(text, SelectionStart(cursor), SelectionEnd(cursor))

\* C15: Replace with a non-empty term substitutes the replacement for the
\* selection when there is a selection and the selected text equals the
\* term, and otherwise leaves the document as it is; in both cases it then
\* moves on as Find Next does from where the cursor now is (after the
\* inserted text when it replaced), selecting the next match or reporting
\* that there is none.
C15_ReplaceOnlyMatchingSelectionThenAdvance ==
    [][(dialog_replace /\ dlg_find_input # <<>>)
          => LET hit == HasSelection(cursor) /\ SelectedText = dlg_find_input
                 after == SelectionStart(cursor) + Len(dlg_replace_input)
                 from == IF hit THEN [anchor |-> after, position |-> after] ELSE cursor
                 next == FindNextStart(text', from, dlg_find_input, dlg_case_sensitive,
                                       dlg_whole_words, dlg_wrap_around)
             IN  /\ hit => text' = Slice(text, 0, SelectionStart(cursor))
                                      \o dlg_replace_input
                                      \o Slice(text, SelectionEnd(cursor), Len(text))
                 /\ ~hit => (text' = text /\ is_modified' = is_modified)
                 /\ cursor' = CursorAfterFind(from, next, dlg_find_input)
                 /\ next = -1 => status_message' = <<"No more matches found">>]_vars

\* C15 witness: Replace has replaced a selection and moved on to a match
\* that a case-insensitive search found and that is not the term as typed,
\* which the next Replace is to leave alone.
C15_Witness ==
    /\ dialog_open
    /\ is_modified
    /\ status_message = <<"Replaced 1 occurrence">>
    /\ dlg_find_input # <<>>
    /\ dlg_replace_input # dlg_find_input
    /\ HasSelection(cursor)
    /\ SelectedText # dlg_find_input
    /\ MatchAt(text, dlg_find_input, SelectionStart(cursor), FALSE)

(***************************************************************************)
(* The window with both search interfaces: the find widget, and the        *)
(* Find & Replace dialog, which is modal (dialog.exec()).                  *)
(***************************************************************************)
\* Ctrl+H: a new FindReplaceDialog with empty inputs, the case and whole
\* words boxes unchecked and wrap around checked, is executed.
show_replace_dialog ==
    /\ ~dialog_open
    /\ dialog_open' = TRUE
    /\ dlg_find_input' = <<>>
    /\ dlg_replace_input' = <<>>
    /\ dlg_case_sensitive' = FALSE
    /\ dlg_whole_words' = FALSE
    /\ dlg_wrap_around' = TRUE
    /\ UNCHANGED <<editorVars, findVars, replaced_count, loopVars, tabVars, windowVars,
                   analyzerVars, status_message>>

\* The user types into the find input / the replace input of the dialog.
SetDlgFindInput(t) ==
    /\ dialog_open /\ ra_pc = "idle"
    /\ t # dlg_find_input
    /\ dlg_find_input' = t
    /\ UNCHANGED <<editorVars, findVars, dialog_open, dlg_replace_input,
                   dlg_case_sensitive, dlg_whole_words, dlg_wrap_around,
                   replaced_count, loopVars, tabVars, windowVars, analyzerVars, status_message>>

SetDlgReplaceInput(t) ==
    /\ dialog_open /\ ra_pc = "idle"
    /\ t # dlg_replace_input
    /\ dlg_replace_input' = t
    /\ UNCHANGED <<editorVars, findVars, dialog_open, dlg_find_input,
                   dlg_case_sensitive, dlg_whole_words, dlg_wrap_around,
                   replaced_count, loopVars, tabVars, windowVars, analyzerVars, status_message>>

\* The dialog is closed: exec() returns and the dialog object is dropped.
CloseDialog ==
    /\ dialog_open /\ ra_pc = "idle"
    /\ dialog_open' = FALSE
    /\ dlg_find_input' = <<>>
    /\ dlg_replace_input' = <<>>
    /\ dlg_case_sensitive' = FALSE
    /\ dlg_whole_words' = FALSE
    /\ dlg_wrap_around' = TRUE
    /\ UNCHANGED <<editorVars, findVars, replaced_count, loopVars, tabVars, windowVars,
                   analyzerVars, status_message>>

\* Longest document and longest input of the window with both search
\* interfaces.
MaxWinLen == 2
MaxWinTermLen == 1

\* What is typed into the find widget's input, the dialog's find input and
\* the dialog's replace input.
WinFindInputs == SeqsUpTo({"a", Space}, MaxWinTermLen)
WinDlgFindInputs == SeqsUpTo({"a"}, MaxWinTermLen)
WinDlgReplaceInputs == SeqsUpTo({"A"}, MaxWinTermLen)

InitWindow ==
    /\ text \in SeqsUpTo(DocChars, MaxWinLen)
    /\ cursor = DocCursor
    /\ is_modified = FALSE
    /\ edit_block_depth = 0
    /\ InitFind
    /\ InitNoDialog
    /\ InitOneTab
    /\ InitNoAnalysis
    /\ InitStatus
    /\ InitNoFiles

NextWindow ==
    \/ show_find_dialog
    \/ \E t \in WinFindInputs : SetFindInput(t)
    \/ perform_find
    \/ ToggleMatchCase
    \/ find_next
    \/ find_previous
    \/ close_find_widget
    \/ show_replace_dialog
    \/ \E t \in WinDlgFindInputs : SetDlgFindInput(t)
    \/ \E t \in WinDlgReplaceInputs : SetDlgReplaceInput(t)
    \/ dialog_find_next
    \/ dialog_find_prev
    \/ dialog_replace
    \/ dialog_replace_all
    \/ CloseDialog

SpecWindow == InitWindow /\ [][NextWindow]_vars

\* C13 (as claimed): an empty term means no matches for every search
\* operation: perform_find with nothing to search for (an empty find input,
\* or white space only) leaves find_matches empty and the index -1, and
\* Find Next, Find Previous, Replace and Replace All of the dialog with an
\* empty find input change neither the document nor the selection.
C13_EmptyTermMeansNoMatches ==
    [][/\ (perform_find /\ Strip(find_input) = <<>>)
            => (find_matches' = <<>> /\ current_match_index' = -1)
       /\ ((dialog_find_next \/ dialog_find_prev \/ dialog_replace \/ dialog_replace_all)
             /\ dlg_find_input = <<>>)
            => (text' = text /\ cursor' = cursor)]_vars

\* C16: the handlers that search (perform_find, also when the Match Case
\* box runs it, find_next, find_previous with jump_to_match,
\* close_find_widget, Find Next and Find Previous of the dialog) leave the
\* document's content and the editor's is_modified as they are, and every
\* change of the content is made by Replace or Replace All.
C16_SearchLeavesDocumentAlone ==
    [][/\ (perform_find \/ ToggleMatchCase \/ find_next \/ find_previous
             \/ close_find_widget \/ dialog_find_next \/ dialog_find_prev)
            => (text' = text /\ is_modified' = is_modified)
       /\ (text' # text) => (dialog_replace \/ dialog_replace_all)]_vars

\* C16 witness: the find widget has stepped to a later match, then the
\* dialog's Find Next has moved the selection elsewhere, and the document
\* is still unmodified.
C16_Witness ==
    /\ dialog_open
    /\ dlg_find_input # <<>>
    /\ current_match_index >= 1
    /\ HasSelection(cursor)
    /\ cursor # JumpCursor(text, find_matches, current_match_index, find_input)
    /\ ~is_modified

(***************************************************************************)
(* The dialog over the sentence "The quick fox jumps over the lazy fox",   *)
(* searching "fox" and replacing it by "cat".                              *)
(***************************************************************************)
FoxBuffer ==
    <<"T", "h", "e", " ", "q", "u", "i", "c", "k", " ", "f", "o",
      "x", " ", "j", "u", "m", "p", "s", " ", "o", "v", "e", "r", " ",
      "t", "h", "e", " ", "l", "a", "z", "y", " ", "f", "o", "x">>
CatBuffer ==
    <<"T", "h", "e", " ", "q", "u", "i", "c", "k", " ", "c", "a",
      "t", " ", "j", "u", "m", "p", "s", " ", "o", "v", "e", "r", " ",
      "t", "h", "e", " ", "l", "a", "z", "y", " ", "c", "a", "t">>
FoxTerm == <<"f", "o", "x">>
CatTerm == <<"c", "a", "t">>

\* The dialog is open over the sentence, the cursor anywhere in it, with
\* the two inputs filled in and the options set.
InitFox ==
    /\ text = FoxBuffer
    /\ cursor \in {[anchor |-> p, position |-> p] : p \in 0..Len(FoxBuffer)}
    /\ is_modified = FALSE
    /\ edit_block_depth = 0
    /\ InitFind
    /\ dialog_open = TRUE
    /\ dlg_find_input = FoxTerm
    /\ dlg_replace_input = CatTerm
    /\ dlg_case_sensitive \in BOOLEAN
    /\ dlg_whole_words \in BOOLEAN
    /\ dlg_wrap_around \in BOOLEAN
    /\ replaced_count = -1
    /\ ra_pc = "idle"
    /\ ra_pos = 0
    /\ ra_count = 0
    /\ InitOneTab
    /\ InitNoAnalysis
    /\ InitStatus
    /\ InitNoFiles

NextFox ==
    \/ dialog_find_next
    \/ dialog_find_prev
    \/ dialog_replace
    \/ dialog_replace_all

SpecFox == InitFox /\ [][NextFox]_vars

\* The span the editor's cursor selects.
SelectedSpan(cur) == <<SelectionStart(cur), SelectionEnd(cur)>>

\* C17 (as claimed): in "The quick fox jumps over the lazy fox",
\* case-insensitive and with whole words, the search for "fox" finds the
\* matches (10,13) and (35,38) and no other, and Replace All by "cat" gives
\* "The quick cat jumps over the lazy cat" and reports 2.
C17_FoxMatchesAt10And35 ==
    [][(text = FoxBuffer /\ ~dlg_case_sensitive /\ dlg_whole_words) =>
          /\ (dialog_find_next \/ dialog_find_prev)
                => SelectedSpan(cursor') \in {SelectedSpan(cursor), <<10, 13>>, <<35, 38>>}
          /\ dialog_replace_all
                => (text' = CatBuffer /\ replaced_count' = 2)]_vars

\* C17 (amended): in "The quick fox jumps over the lazy fox",
\* case-insensitive and with whole words, the search for "fox" finds the
\* matches (10,13) and (34,37) and no other: Find Next selects (10,13) from
\* a cursor at or before 10, (34,37) from a cursor after 10 and at or before
\* 34, and past 34 wraps to (10,13) or finds nothing; Find Previous mirrors
\* it.  Replace All by "cat" gives "The quick cat jumps over the lazy cat"
\* and reports 2.
C17_FoxMatchesAt10And34 ==
    [][(text = FoxBuffer /\ ~dlg_case_sensitive /\ dlg_whole_words) =>
          /\ DlgOccurrences = {10, 34}
          /\ dialog_find_next
                => SelectedSpan(cursor') =
                      IF SelectionEnd(cursor) <= 10 THEN <<10, 13>>
                      ELSE IF SelectionEnd(cursor) <= 34 THEN <<34, 37>>
                      ELSE IF dlg_wrap_around THEN <<10, 13>>
                      ELSE SelectedSpan(cursor)
          /\ dialog_find_prev
                => SelectedSpan(cursor') =
                      IF SelectionStart(cursor) > 34 THEN <<34, 37>>
                      ELSE IF SelectionStart(cursor) > 10 THEN <<10, 13>>
                      ELSE IF dlg_wrap_around THEN <<34, 37>>
                      ELSE SelectedSpan(cursor)
          /\ dialog_replace_all
                => (text' = CatBuffer /\ replaced_count' = 2)]_vars

\* C17 witness: Replace All has turned the sentence into the one with "cat"
\* and reported 2, case-insensitive and with whole words.
C17_Witness ==
    /\ text = CatBuffer
    /\ replaced_count = 2
    /\ status_message = <<"Replaced occurrences", 2>>
    /\ ~dlg_case_sensitive
    /\ dlg_whole_words

(***************************************************************************)
(* TextAnalyzer (src/core/text_analyzer.py): static functions of a text    *)
(* and a cursor position.  The text is the variable text, the position     *)
(* argument an_offset, and an_result holds what the call returned.         *)
(***************************************************************************)
NewLine == "\n"
TabChar == "\t"

\* str.isspace, and the class \s of re, for the characters of a document.
IsWhitespace(c) == c \in {Space, NewLine, TabChar}

\* str.count(c)
RECURSIVE CountChar(_, _)
CountChar(s, c) ==
    IF s = <<>> THEN 0
    ELSE (IF Head(s) = c THEN 1 ELSE 0) + CountChar(Tail(s), c)

\* str.rfind(c): the 0-based index of the last c, or -1.
RFind(s, c) ==
    LET at == {i \in 1..Len(s) : s[i] = c}
    IN  IF at = {} THEN -1 ELSE (CHOOSE i \in at : \A j \in at : i >= j) - 1

\* len(text.split()): the number of maximal runs of non-white-space.
count_words(s) ==
    IF s = <<>> THEN 0
    ELSE Cardinality({i \in 1..Len(s) :
                         /\ ~IsWhitespace(s[i])
                         /\ (i = 1 \/ IsWhitespace(s[i - 1]))})

\* A mutant of count_characters: only the spaces are removed.
count_characters_SpacesOnly(s, with_spaces) ==
    IF s = <<>> THEN 0
    ELSE IF with_spaces THEN Len(s)
    ELSE Cardinality({i \in 1..Len(s) : s[i] # Space})

\* len(text), or len(re.sub(r'\s', '', text)).
count_characters(s, with_spaces) ==
    IF s = <<>> THEN 0
    ELSE IF with_spaces THEN Len(s)
    ELSE Cardinality({i \in 1..Len(s) : ~IsWhitespace(s[i])})

\* A mutant of get_line_col: the position is not limited to the length of
\* the text (the slice text[:cursor_position] stops at the end by itself).
get_line_col_Unlimited(s, cursor_position) ==
    IF s = <<>> \/ cursor_position < 0 THEN <<1, 1>>
    ELSE LET text_before == Slice(s, 0, Min(cursor_position, Len(s)))
             last_newline == RFind(text_before, NewLine)
         IN  <<CountChar(text_before, NewLine) + 1,
               IF last_newline = -1 THEN cursor_position + 1
               ELSE cursor_position - last_newline>>

\* A mutant of get_line_col: the column is counted from 0.
get_line_col_ColumnFromZero(s, cursor_position) ==
    IF s = <<>> \/ cursor_position < 0 THEN <<1, 1>>
    ELSE LET pos == Min(cursor_position, Len(s))
             text_before == Slice(s, 0, pos)
             last_newline == RFind(text_before, NewLine)
         IN  <<CountChar(text_before, NewLine) + 1,
               IF last_newline = -1 THEN pos ELSE pos - last_newline - 1>>

\* get_line_col(text, cursor_position) -> (line_number, column_number)
get_line_col(s, cursor_position) ==
    IF s = <<>> \/ cursor_position < 0 THEN <<1, 1>>
    ELSE LET pos == Min(cursor_position, Len(s))
             text_before == Slice(s, 0, pos)
             last_newline == RFind(text_before, NewLine)
         IN  <<CountChar(text_before, NewLine) + 1,
               IF last_newline = -1 THEN pos + 1 ELSE pos - last_newline>>

\* A mutant of count_lines: the lines are those of str.splitlines(), which
\* has no line after a final line break.
count_lines_Splitlines(s) ==
    IF s = <<>> THEN 1
    ELSE CountChar(s, NewLine) + (IF s[Len(s)] = NewLine THEN 0 ELSE 1)

\* count_lines(text)
count_lines(s) == IF s = <<>> THEN 1 ELSE CountChar(s, NewLine) + 1

\* The cursor_position get_statistics works with: its parameter defaults
\* to 0.
PositionOrDefault(offset) == IF offset.given THEN offset.value ELSE 0

\* A mutant of get_statistics: count_characters is called without
\* with_spaces, which then has its default True.
get_statistics_DefaultWithSpaces(s, offset, with_spaces) ==
    LET line_col == get_line_col(s, PositionOrDefault(offset))
    IN  <<count_words(s), count_characters(s, TRUE), count_lines(s),
          line_col[1], line_col[2]>>

\* get_statistics(text, cursor_position = 0, with_spaces = True): words,
\* characters, total_lines, current_line, current_col.
get_statistics(s, offset, with_spaces) ==
    LET line_col == get_line_col(s, PositionOrDefault(offset))
    IN  <<count_words(s), count_characters(s, with_spaces), count_lines(s),
          line_col[1], line_col[2]>>

\* The calls: each applies a function to the text and the given arguments.
AnalyzerFrame == UNCHANGED <<editorVars, findVars, dialogVars, tabVars, windowVars, an_offset,
                             status_message>>

\* get_line_col has no default for cursor_position: it is called with one.
Call_get_line_col ==
    /\ an_offset.given
    /\ an_result' = [op |-> "get_line_col", value |-> get_line_col(text, an_offset.value)]
    /\ AnalyzerFrame

Call_count_lines ==
    /\ an_result' = [op |-> "count_lines", value |-> <<count_lines(text)>>]
    /\ AnalyzerFrame

Call_count_words ==
    /\ an_result' = [op |-> "count_words", value |-> <<count_words(text)>>]
    /\ AnalyzerFrame

Call_count_characters(with_spaces) ==
    /\ an_result' = [op |-> "count_characters",
                     value |-> <<count_characters(text, with_spaces)>>]
    /\ AnalyzerFrame

Call_get_statistics(with_spaces) ==
    /\ an_result' = [op |-> "get_statistics",
                     value |-> get_statistics(text, an_offset, with_spaces)]
    /\ AnalyzerFrame

\* Longest text given to the analyzer.
MaxAnLen == 3

AnChars == {"a", Space, NewLine, TabChar}
LinesBuffer == <<"l", "i", "n", "e", "1", NewLine, "l", "i", "n", "e", "2", NewLine,
                 "l", "i", "n", "e", "3">>
AnTexts == SeqsUpTo(AnChars, MaxAnLen) \cup {LinesBuffer}

\* The cursor_position arguments: in range, below 0, past the end, and
\* left out.
AnOffsets ==
    {[given |-> TRUE, value |-> o] :
        o \in (-2..(MaxAnLen + 2)) \cup {7, Len(LinesBuffer), Len(LinesBuffer) + 1}}
      \cup {[given |-> FALSE, value |-> 0]}

InitAnalyzer ==
    /\ text \in AnTexts
    /\ an_offset \in AnOffsets
    /\ an_result = NoResult
    /\ cursor = DocCursor
    /\ is_modified = FALSE
    /\ edit_block_depth = 0
    /\ InitFind
    /\ InitNoDialog
    /\ InitOneTab
    /\ InitStatus
    /\ InitNoFiles

NextAnalyzer ==
    \/ Call_get_line_col
    \/ Call_count_lines
    \/ Call_count_words
    \/ \E with_spaces \in BOOLEAN : Call_count_characters(with_spaces)
    \/ \E with_spaces \in BOOLEAN : Call_get_statistics(with_spaces)

SpecAnalyzer == InitAnalyzer /\ [][NextAnalyzer]_vars

(***************************************************************************)
(* Properties of TextAnalyzer.                                             *)
(***************************************************************************)
\* The 0-based indexes of the line breaks before offset o.
NewLinesBefore(o) == {i \in 0..(o - 1) : text[i + 1] = NewLine}

\* C18: for a non-empty text and an offset o in 0 .. len, get_line_col
\* returns line = 1 + the number of line breaks in text[0:o] and column =
\* o - the index of the last line break before o, or o + 1 when there is
\* none; the column is at least 1; and for "line1\nline2\nline3" at 7 it
\* returns (2, 2).
C18_LineColFromLineBreaks ==
    (/\ an_result.op = "get_line_col"
     /\ text # <<>>
     /\ an_offset.value \in 0..Len(text))
        => LET o == an_offset.value
               breaks == NewLinesBefore(o)
           IN  /\ an_result.value[1] = Cardinality(breaks) + 1
               /\ an_result.value[2] =
                     IF breaks = {} THEN o + 1 ELSE o - Greatest(breaks)
               /\ an_result.value[2] >= 1
               /\ (text = LinesBuffer /\ o = 7) => an_result.value = <<2, 2>>

\* C18 witness: get_line_col has been called on "line1\nline2\nline3" at 7.
C18_Witness ==
    /\ an_result.op = "get_line_col"
    /\ text = LinesBuffer
    /\ an_offset.value = 7
    /\ an_result.value = <<2, 2>>

RECURSIVE SplitLines(_)
SplitLines(s) ==
    IF s = <<>> THEN << <<>> >>
    ELSE LET rest == SplitLines(Tail(s))
         IN  IF Head(s) = NewLine THEN << <<>> >> \o rest
             ELSE << <<Head(s)>> \o Head(rest) >> \o Tail(rest)

\* C20: count_lines returns at least 1 for every text and 1 for the empty
\* text; for a non-empty text it returns the number of segments the line
\* breaks cut it into, the part after the last line break included.
C20_CountLinesCountsSegments ==
    an_result.op = "count_lines" =>
        /\ an_result.value[1] >= 1
        /\ text = <<>> => an_result.value[1] = 1
        /\ text # <<>> => an_result.value[1] = Len(SplitLines(text))

\* C20 witness: count_lines has counted a text that ends in a line break:
\* the empty part after it makes one more line.
C20_Witness ==
    /\ an_result.op = "count_lines"
    /\ text # <<>>
    /\ text[Len(text)] = NewLine
    /\ an_result.value[1] = CountChar(text, NewLine) + 1
    /\ an_result.value[1] >= 2

\* The characters of the text that are not white space, in their order.
NonWhitespace == SelectSeq(text, LAMBDA c : c \notin {Space, NewLine, TabChar})

\* C21: count_characters(text, with_spaces = True) returns len(text);
\* with_spaces = False returns the number of characters of the text that
\* are not white space; so the first is never less than the second.
C21_CharactersWithAndWithoutSpaces ==
    [][/\ Call_count_characters(TRUE) => an_result'.value = <<Len(text)>>
       /\ Call_count_characters(FALSE) => an_result'.value = <<Len(NonWhitespace)>>
       /\ count_characters(text, TRUE) >= count_characters(text, FALSE)]_vars

\* C21 witness: count_characters has returned less than the length of a
\* text that has a space, a tab or a line break between its letters: it
\* was called with with_spaces = False.
C21_Witness ==
    /\ an_result.op = "count_characters"
    /\ Len(text) = 3
    /\ text[1] = "a"
    /\ text[2] \in {NewLine, TabChar}
    /\ text[3] = "a"
    /\ an_result.value = <<2>>

\* C22: get_statistics(text, offset, with_spaces) returns words =
\* count_words(text), characters = count_characters(text, with_spaces),
\* total_lines = count_lines(text) and (current_line, current_col) =
\* get_line_col(text, offset); for the empty text at offset 0 these are
\* 0, 0, 1, 1, 1.
C22_StatisticsIsTheComposition ==
    [][\A with_spaces \in BOOLEAN :
          (Call_get_statistics(with_spaces) /\ an_offset.given) =>
             LET v == an_result'.value
             IN  /\ Len(v) = 5
                 /\ v[1] = count_words(text)
                 /\ v[2] = count_characters(text, with_spaces)
                 /\ v[3] = count_lines(text)
                 /\ <<v[4], v[5]>> = get_line_col(text, an_offset.value)
                 /\ (text = <<>> /\ an_offset.value = 0) => v = <<0, 0, 1, 1, 1>>]_vars

\* C22 witness: get_statistics has been called on the empty text at
\* offset 0 and has returned 0 words, 0 characters, 1 line, line 1,
\* column 1.
C22_Witness ==
    /\ an_result.op = "get_statistics"
    /\ text = <<>>
    /\ an_offset = [given |-> TRUE, value |-> 0]
    /\ an_result.value = <<0, 0, 1, 1, 1>>

(***************************************************************************)
(* Find Next followed by Replace.                                          *)
(***************************************************************************)
\* The editor's cursor is one dialog_find_next leaves when it has found a
\* match of the dialog's term under the dialog's options: the match
\* selected.
JustFoundByFindNext ==
    /\ dialog_open
    /\ dlg_find_input # <<>>
    /\ \E a \in 0..Len(text), p \in 0..Len(text) :
          LET start == FindNextStart(text, [anchor |-> a, position |-> p],
                                     dlg_find_input, dlg_case_sensitive,
                                     dlg_whole_words, dlg_wrap_around)
          IN  /\ start # -1
              /\ cursor = FoundCursor(start, dlg_find_input)

\* C24: when Find Next has just selected a match of the term, Replace with
\* the same term and options replaces exactly that selected match with the
\* replacement text, whatever the case-sensitive and whole-word options
\* are, also for a match whose letter case differs from the term.
C24_ReplaceAfterFindNextReplacesTheMatch ==
    [][(JustFoundByFindNext /\ dialog_replace) =>
          text' = Slice(text, 0, SelectionStart(cursor)) \o dlg_replace_input
                    \o Slice(text, SelectionEnd(cursor), Len(text))]_vars

(***************************************************************************)
(* The edit block of Replace All.                                          *)
(***************************************************************************)
\* C30: the edit block dialog_replace_all opens on the document is ended
\* on that document when the handler returns, for every number of
\* replacements, zero included: the document has as many open edit blocks
\* after the call as before it.
C30_ReplaceAllClosesItsEditBlock ==
    [][dialog_replace_all => edit_block_depth' = edit_block_depth]_vars

(***************************************************************************)
(* FileOperations (src/core/file_ops.py) and the handlers of MainWindow    *)
(* that open, save and close tabs.  The handlers are functions of the      *)
(* window w: tabs (the editors of the tab widget), index (its current      *)
(* index), files (the disk), recent (config["recent_files"]) and message   *)
(* (the status bar).  Tab titles and the counter that numbers the untitled *)
(* ones are left out.                                                      *)
(***************************************************************************)
\* recent[:15]
RecentLimit == 15

\* The index of the first element of s that is x (s holds x).
FirstIndex(s, x) == CHOOSE i \in 1..Len(s) : s[i] = x /\ \A j \in 1..(i - 1) : s[j] # x

\* list.remove(x) when x is in the list: the first x is removed.
RemoveFirst(s, x) ==
    IF \E i \in 1..Len(s) : s[i] = x THEN RemoveAt(s, FirstIndex(s, x)) ELSE s

\* A mutant of add_recent_file: the path is put in front without removing
\* it from where it was.
add_recent_file_KeepsOld(recent, path) ==
    IF path = NoPath THEN recent
    ELSE LET inserted == <<path>> \o recent
         IN  SubSeq(inserted, 1, Min(RecentLimit, Len(inserted)))

\* FileOperations.add_recent_file: config["recent_files"] afterwards.
add_recent_file(recent, path) ==
    IF path = NoPath THEN recent
    ELSE LET inserted == <<path>> \o RemoveFirst(recent, path)
         IN  SubSeq(inserted, 1, Min(RecentLimit, Len(inserted)))

\* FileOperations.get_recent_files: the recent files that exist; the
\* configuration is changed to them.
get_recent_files(recent, fs) == SelectSeq(recent, LAMBDA f : fs[f].exists)

\* add_recent_file followed by update_recent_menu, which calls
\* get_recent_files.
AddRecentAndUpdateMenu(recent, path, fs) ==
    get_recent_files(add_recent_file(recent, path), fs)

\* FileOperations.write_file: ok is whether open and write succeeded; a
\* failure is caught and leaves the file as it was.
write_file(fs, path, content, ok) ==
    IF ok THEN [fs EXCEPT ![path] = [exists |-> TRUE, content |-> content]] ELSE fs

\* The window a handler works on.
Window ==
    [tabs |-> Tabs, index |-> current_index, files |-> files,
     recent |-> recent_files, message |-> status_message]

WindowBecomes(w) ==
    /\ TabWidgetBecomes(w.tabs, w.index)
    /\ files' = w.files
    /\ recent_files' = w.recent
    /\ status_message' = w.message

\* EditorTab() followed by set_file_path and set_content when a path is
\* given; new_tab does not use content when there is no path.
NewEditor(path, content) ==
    [text |-> IF path # NoPath THEN content ELSE <<>>,
     cursor |-> DocCursor,
     is_modified |-> FALSE,
     edit_block_depth |-> 0,
     file_path |-> path,
     custom_tab_name |-> NoName]

\* MainWindow.new_tab(file_path, content): addTab and setCurrentIndex.
new_tab(w, path, content) ==
    [w EXCEPT !.tabs = Append(@, NewEditor(path, content)),
              !.index = Len(w.tabs)]

\* tab_widget.removeTab(index): a current tab that is removed gives way to
\* the tab on its right, or to the one on its left when it was the last.
removeTab(w, index) ==
    LET left == RemoveAt(w.tabs, index + 1)
    IN  [w EXCEPT !.tabs = left,
                  !.index = IF left = <<>> THEN -1
                            ELSE IF index < w.index THEN w.index - 1
                            ELSE IF index > w.index THEN w.index
                            ELSE IF index < Len(left) THEN index
                            ELSE index - 1]

\* MainWindow.save_file_as: chosen is what the Save As dialog returned, ""
\* when it was cancelled.
save_file_as(w, chosen, ok) ==
    IF w.index = -1 \/ chosen = NoPath \/ ~ok THEN w
    ELSE LET editor == w.tabs[w.index + 1]
             written == write_file(w.files, chosen, editor.text, ok)
         IN  [w EXCEPT !.files = written,
                       !.tabs[w.index + 1].file_path = chosen,
                       !.tabs[w.index + 1].is_modified = FALSE,
                       !.recent = AddRecentAndUpdateMenu(w.recent, chosen, written),
                       !.message = <<"Saved", chosen>>]

\* MainWindow.save_file: the current editor is written to its file, or
\* save_file_as is called when it has none.
save_file(w, chosen, ok) ==
    IF w.index = -1 THEN w
    ELSE LET editor == w.tabs[w.index + 1]
             written == write_file(w.files, editor.file_path, editor.text, ok)
         IN  IF editor.file_path = NoPath THEN save_file_as(w, chosen, ok)
             ELSE IF ~ok THEN w
             ELSE [w EXCEPT !.files = written,
                            !.tabs[w.index + 1].is_modified = FALSE,
                            !.recent = AddRecentAndUpdateMenu(w.recent, editor.file_path,
                                                              written),
                            !.message = <<"Saved", editor.file_path>>]

\* A mutant of close_tab: no tab is created when the last one is removed.
close_tab_LeavesNone(w, index, reply, chosen, ok) ==
    IF index < 0 THEN w
    ELSE LET editor == w.tabs[index + 1]
             saved == IF editor.is_modified /\ reply = "Save"
                      THEN save_file(w, chosen, ok) ELSE w
         IN  IF editor.is_modified /\ reply = "Cancel" THEN w
             ELSE removeTab(saved, index)

\* MainWindow.close_tab(index): reply is the answer to "Save changes?",
\* asked when the editor of the tab is modified.
close_tab(w, index, reply, chosen, ok) ==
    IF index < 0 THEN w
    ELSE LET editor == w.tabs[index + 1]
             saved == IF editor.is_modified /\ reply = "Save"
                      THEN save_file(w, chosen, ok) ELSE w
             removed == removeTab(saved, index)
         IN  IF editor.is_modified /\ reply = "Cancel" THEN w
             ELSE IF removed.tabs = <<>> THEN new_tab(removed, NoPath, <<>>)
             ELSE removed

\* MainWindow.open_file_path: read_ok is whether read_file returned the
\* content.
open_file_path(w, path, read_ok) ==
    IF ~w.files[path].exists \/ ~read_ok THEN w
    ELSE LET opened == new_tab(w, path, w.files[path].content)
         IN  [opened EXCEPT !.recent = AddRecentAndUpdateMenu(w.recent, path, w.files)]

\* MainWindow.auto_save_all from its i-th tab on: oks[i] is whether the
\* write of the i-th editor succeeds.
RECURSIVE auto_save_all(_, _, _)
auto_save_all(w, i, oks) ==
    IF i > Len(w.tabs) THEN w
    ELSE LET editor == w.tabs[i]
         IN  IF editor.is_modified /\ editor.file_path # NoPath
             THEN auto_save_all(
                      [w EXCEPT !.files = write_file(@, editor.file_path, editor.text,
                                                     oks[i]),
                                !.tabs[i].is_modified = FALSE],
                      i + 1, oks)
             ELSE auto_save_all(w, i + 1, oks)

(***************************************************************************)
(* The list of recent files.                                               *)
(***************************************************************************)
\* A call of add_recent_file (open_file_path, save_file and save_file_as
\* make it with the path of the file).
Call_add_recent_file(path) ==
    /\ window = "open"
    /\ recent_files' = add_recent_file(recent_files, path)
    /\ UNCHANGED <<editorVars, findVars, dialogVars, tabVars, window, files,
                   last_session, analyzerVars, status_message>>

\* The list as full as it gets, two paths that are not in it, and the
\* paths given to add_recent_file: none, some of the list, the new ones.
FullRecent == <<"p01", "p02", "p03", "p04", "p05", "p06", "p07", "p08", "p09", "p10",
                "p11", "p12", "p13", "p14", "p15">>
NewPaths == {"p16", "p17"}
AddedPaths == {NoPath, "p01", "p08", "p15"} \cup NewPaths

\* The configuration holds a list of recent files without duplicates.
InitRecent ==
    /\ text = <<>>
    /\ cursor = DocCursor
    /\ is_modified = FALSE
    /\ edit_block_depth = 0
    /\ InitFind
    /\ InitNoDialog
    /\ InitOneTab
    /\ InitNoAnalysis
    /\ InitStatus
    /\ window = "open"
    /\ files = [p \in Paths |-> NoFile]
    /\ recent_files \in {SubSeq(FullRecent, 1, k) : k \in 0..Len(FullRecent)}
    /\ last_session = <<>>

NextRecent == \E path \in AddedPaths : Call_add_recent_file(path)

SpecRecent == InitRecent /\ [][NextRecent]_vars

\* No element occurs twice in s.
NoDuplicates(s) == \A i, j \in 1..Len(s) : s[i] = s[j] => i = j

\* s without its elements equal to x, in the order they have in s.
Without(s, x) == SelectSeq(s, LAMBDA f : f # x)

\* C23: starting from a list without duplicates, after every
\* add_recent_file the list has at most 15 entries and no duplicate; the
\* path just added is its first entry and the entries after it are the
\* other entries it had before, in the order they had (as many as fit);
\* add_recent_file with an empty path changes nothing.
C23_RecentFilesBoundedDistinctNewestFirst ==
    [][\A path \in AddedPaths :
          Call_add_recent_file(path) =>
             /\ Len(recent_files') <= 15
             /\ NoDuplicates(recent_files')
             /\ path = NoPath => recent_files' = recent_files
             /\ path # NoPath =>
                   LET others == Without(recent_files, path)
                   IN  /\ recent_files'[1] = path
                       /\ Len(recent_files') = Min(15, Len(others) + 1)
                       /\ Tail(recent_files')
                             = SubSeq(others, 1, Len(recent_files') - 1)]_vars

\* C23 witness: a path that was not in the full list of 15 has been added:
\* it is first, the list still has 15 entries, and a path that was in the
\* list has been added after it.
C23_Witness ==
    /\ Len(recent_files) = 15
    /\ recent_files[1] = "p08"
    /\ recent_files[2] = "p16"
    /\ \A i \in 1..15 : recent_files[i] # "p15"

(***************************************************************************)
(* The handlers as actions of the window.                                  *)
(***************************************************************************)
\* Most tabs the window is given, and the longest text typed into one.
MaxTabs == 2
MaxFileLen == 1

\* What the handlers of files and tabs leave alone.
FileFrame == UNCHANGED <<findVars, dialogVars, window, last_session, analyzerVars>>

\* File > New Tab.
Call_new_tab ==
    /\ window = "open" /\ ~dialog_open
    /\ Len(Tabs) < MaxTabs
    /\ WindowBecomes(new_tab(Window, NoPath, <<>>))
    /\ FileFrame

\* A file is opened: chosen in the Open dialog, dropped on the window or
\* picked from the recent files.
Call_open_file_path(path, read_ok) ==
    /\ window = "open" /\ ~dialog_open
    /\ Len(Tabs) < MaxTabs
    /\ WindowBecomes(open_file_path(Window, path, read_ok))
    /\ FileFrame

\* The close button of the tab at index (tabCloseRequested), or File >
\* Close Tab for the current one.
Call_close_tab(index, reply, chosen, ok) ==
    /\ window = "open" /\ ~dialog_open
    /\ index \in 0..(Len(Tabs) - 1)
    /\ WindowBecomes(close_tab(Window, index, reply, chosen, ok))
    /\ FileFrame

\* File > Save and File > Save As.
Call_save_file(chosen, ok) ==
    /\ window = "open" /\ ~dialog_open
    /\ WindowBecomes(save_file(Window, chosen, ok))
    /\ FileFrame

Call_save_file_as(chosen, ok) ==
    /\ window = "open" /\ ~dialog_open
    /\ WindowBecomes(save_file_as(Window, chosen, ok))
    /\ FileFrame

\* The auto-save timer fires.
Call_auto_save_all(oks) ==
    /\ window = "open"
    /\ WindowBecomes(auto_save_all(Window, 1, oks))
    /\ FileFrame

\* The answers to "Save changes?", what a Save As dialog returns, and
\* whether each write of a pass over the tabs succeeds.
Replies == {"Save", "Discard", "Cancel"}
Chosen == Paths \cup {NoPath}
Outcomes == [1..MaxTabs -> BOOLEAN]

\* The disk holds some of the files, with some content.
FileTexts == SeqsUpTo({"a"}, MaxFileLen)
InitDisk ==
    files \in [Paths -> {NoFile} \cup {[exists |-> TRUE, content |-> t] : t \in FileTexts}]

InitFiles ==
    /\ text = <<>>
    /\ cursor = DocCursor
    /\ is_modified = FALSE
    /\ edit_block_depth = 0
    /\ InitFind
    /\ InitNoDialog
    /\ InitOneTab
    /\ InitNoAnalysis
    /\ InitStatus
    /\ window = "open"
    /\ InitDisk
    /\ recent_files = <<>>
    /\ last_session = <<>>

NextFiles ==
    \/ Len(text) < MaxFileLen /\ TypeChar("a")
    \/ Backspace
    \/ \E i \in 1..Len(other_tabs) : on_tab_changed(i)
    \/ Call_new_tab
    \/ \E path \in Paths, read_ok \in BOOLEAN : Call_open_file_path(path, read_ok)
    \/ \E index \in 0..(MaxTabs - 1), reply \in Replies, chosen \in Chosen, ok \in BOOLEAN :
          Call_close_tab(index, reply, chosen, ok)
    \/ \E chosen \in Chosen, ok \in BOOLEAN : Call_save_file(chosen, ok)
    \/ \E chosen \in Chosen, ok \in BOOLEAN : Call_save_file_as(chosen, ok)
    \/ \E oks \in Outcomes : Call_auto_save_all(oks)

SpecFiles == InitFiles /\ [][NextFiles]_vars

(***************************************************************************)
(* Properties of closing and saving tabs.                                  *)
(***************************************************************************)
\* The file at path holds content.
Holds(fs, path, content) ==
    path # NoPath /\ fs[path] = [exists |-> TRUE, content |-> content]

\* C25: when close_tab(index) is called for a modified tab and the answer
\* is Save, the tab is removed only after the content of the tab at that
\* index has been written to its file (the file it has, or the one chosen
\* in Save As when it has none); when the content was not written the tabs
\* stay as they are.
C25_SaveOnCloseWritesTheClosedTab ==
    [][\A index \in 0..(Len(Tabs) - 1), chosen \in Chosen, ok \in BOOLEAN :
          (/\ Call_close_tab(index, "Save", chosen, ok)
           /\ Tabs[index + 1].is_modified)
             => LET editor == Tabs[index + 1]
                    target == IF editor.file_path # NoPath THEN editor.file_path
                                                           ELSE chosen
                    written == ok /\ Holds(files', target, editor.text)
                IN  \/ written
                    \/ Tabs' = Tabs]_vars

\* C28: save_file, save_file_as and auto_save_all clear the is_modified
\* flag of a tab only if write_file returned True for the content of that
\* tab, which its file then holds; and when the write of save_file or
\* save_file_as fails, the tabs (flags and file paths) and the recent files
\* stay as they are.
C28_ModifiedClearedOnlyByASuccessfulWrite ==
    [][/\ ((\E chosen \in Chosen, ok \in BOOLEAN :
               Call_save_file(chosen, ok) \/ Call_save_file_as(chosen, ok))
          \/ (\E oks \in Outcomes : Call_auto_save_all(oks)))
            => /\ Len(Tabs') = Len(Tabs)
               /\ \A i \in 1..Len(Tabs) :
                     (Tabs[i].is_modified /\ ~Tabs'[i].is_modified)
                        => Holds(files', Tabs'[i].file_path, Tabs[i].text)
       /\ \A chosen \in Chosen :
             (Call_save_file(chosen, FALSE) \/ Call_save_file_as(chosen, FALSE))
                => (Tabs' = Tabs /\ recent_files' = recent_files)]_vars

\* C29: once the window is constructed, after any sequence of new_tab,
\* open_file_path and close_tab, with any answer to "Save changes?", the tab
\* widget holds at least one tab: get_current_editor returns an editor.
C29_AlwaysATab ==
    window = "open" => (Len(Tabs) >= 1 /\ current_index \in 0..(Len(Tabs) - 1))

\* C29 witness: after a file was saved, tabs have been closed until one
\* untitled, unmodified, empty tab is all the window holds.
C29_Witness ==
    /\ window = "open"
    /\ Len(Tabs) = 1
    /\ file_path = NoPath
    /\ text = <<>>
    /\ ~is_modified
    /\ status_message # <<>>
    /\ recent_files # <<>>

(***************************************************************************)
(* The session: saved when the window is closed, restored when the window  *)
(* of the next run is constructed.                                         *)
(***************************************************************************)
\* MainWindow.save_session: the tab_data of every tab, given to
\* FileOperations.save_session; the content is kept for tabs without a
\* file (<<>> stands for None as well as for the empty text: the code only
\* tests it for truth).
save_session(tabs) ==
    [i \in 1..Len(tabs) |->
        [file_path   |-> tabs[i].file_path,
         content     |-> IF tabs[i].file_path = NoPath THEN tabs[i].text ELSE <<>>,
         custom_name |-> tabs[i].custom_tab_name]]

\* The loop of closeEvent after the answer Save, from the i-th tab on:
\* setCurrentIndex and save_file for every tab; choices[i] is what a Save
\* As dialog for the i-th tab returns and oks[i] whether its write succeeds.
RECURSIVE SaveAllFrom(_, _, _, _)
SaveAllFrom(w, i, choices, oks) ==
    IF i > Len(w.tabs) THEN w
    ELSE SaveAllFrom(save_file([w EXCEPT !.index = i - 1], choices[i], oks[i]),
                     i + 1, choices, oks)

\* MainWindow.closeEvent: the session is saved first; reply is the answer
\* to "Save before closing?", asked when some tab is modified.
Call_closeEvent(reply, choices, oks) ==
    /\ window = "open" /\ ~dialog_open
    /\ last_session' = save_session(Tabs)
    /\ LET has_unsaved == \E i \in 1..Len(Tabs) : Tabs[i].is_modified
       IN  IF has_unsaved /\ reply = "Save"
           THEN /\ WindowBecomes(SaveAllFrom(Window, 1, choices, oks))
                /\ window' = "closed"
           ELSE /\ window' = IF has_unsaved /\ reply = "Cancel" THEN "open" ELSE "closed"
                /\ UNCHANGED <<editorVars, tabVars, files, recent_files, status_message>>
    /\ UNCHANGED <<findVars, dialogVars, analyzerVars>>

\* The loop of MainWindow.restore_session from the k-th tab_data on.  r.w is
\* the window, r.editor the tab the local variable editor is bound to (0:
\* it is not bound yet) and r.failed whether the loop has raised, which it
\* does when it reads editor unbound.  read_oks[k] is whether read_file
\* returns the content of the k-th file; set_content(None) gives the empty
\* text.
RECURSIVE RestoreFrom(_, _, _, _)
RestoreFrom(r, k, session, read_oks) ==
    IF k > Len(session) \/ r.failed THEN r
    ELSE LET tab_data == session[k]
             path == tab_data.file_path
             has_file == path # NoPath /\ r.w.files[path].exists
             created ==
                IF has_file
                THEN new_tab(r.w, path, IF read_oks[k] THEN r.w.files[path].content
                                                         ELSE <<>>)
                ELSE IF tab_data.content # <<>>
                THEN new_tab(r.w, NoPath, tab_data.content)
                ELSE r.w
             editor == IF Len(created.tabs) > Len(r.w.tabs) THEN Len(created.tabs)
                                                             ELSE r.editor
         IN  IF tab_data.custom_name = NoName
             THEN RestoreFrom([w |-> created, editor |-> editor, failed |-> FALSE],
                              k + 1, session, read_oks)
             ELSE IF editor = 0
             THEN [w |-> created, editor |-> editor, failed |-> TRUE]
             ELSE RestoreFrom([w |-> [created EXCEPT !.tabs[editor].custom_tab_name =
                                                         tab_data.custom_name],
                               editor |-> editor, failed |-> FALSE],
                              k + 1, session, read_oks)

\* MainWindow.restore_session on the window of a new run.
restore_session(w, session, read_oks) ==
    RestoreFrom([w |-> w, editor |-> 0, failed |-> FALSE], 1, session, read_oks)

\* The program is run again after the window was closed: MainWindow()
\* restores the session of the configuration (restore_session is True by
\* default) and creates a tab if there is none then.  When restore_session
\* raises, no window comes up.
Call_MainWindow(read_oks) ==
    /\ window = "closed"
    /\ LET fresh == [tabs |-> <<>>, index |-> -1, files |-> files,
                     recent |-> recent_files, message |-> <<>>]
           r == restore_session(fresh, last_session, read_oks)
       IN  IF r.failed
           THEN /\ window' = "failed"
                /\ WindowBecomes(fresh)
           ELSE /\ window' = "open"
                /\ WindowBecomes(IF r.w.tabs = <<>> THEN new_tab(r.w, NoPath, <<>>)
                                                     ELSE r.w)
    /\ UNCHANGED <<findVars, dialogVars, last_session, analyzerVars>>

\* MainWindow.rename_tab(index): name is what the input dialog returned,
\* "" when it was cancelled or left empty.
Call_rename_tab(index, name) ==
    /\ window = "open" /\ ~dialog_open
    /\ index \in 0..(Len(Tabs) - 1)
    /\ TabWidgetBecomes(IF name = NoName THEN Tabs
                        ELSE [Tabs EXCEPT ![index + 1].custom_tab_name = name],
                        current_index)
    /\ UNCHANGED <<findVars, dialogVars, windowVars, analyzerVars, status_message>>

\* A file is deleted on disk while the program is not running.
DeleteFile(path) ==
    /\ window = "closed"
    /\ files[path].exists
    /\ files' = [files EXCEPT ![path] = NoFile]
    /\ UNCHANGED <<editorVars, findVars, dialogVars, tabVars, window, recent_files,
                   last_session, analyzerVars, status_message>>

\* The names given to tabs, and the answers of the Save As dialogs and the
\* reads of a pass over the tabs.
TabNames == {"n"}
Choices == [1..MaxTabs -> {NoPath, "f"}]

NextSession ==
    \/ Len(text) < MaxFileLen /\ window = "open" /\ TypeChar("a")
    \/ Call_new_tab
    \/ \E path \in Paths, read_ok \in BOOLEAN : Call_open_file_path(path, read_ok)
    \/ \E index \in 0..(MaxTabs - 1), name \in TabNames \cup {NoName} :
          Call_rename_tab(index, name)
    \/ \E reply \in Replies, choices \in Choices, oks \in Outcomes :
          Call_closeEvent(reply, choices, oks)
    \/ \E path \in Paths : DeleteFile(path)
    \/ \E read_oks \in Outcomes : Call_MainWindow(read_oks)

SpecSession == InitFiles /\ [][NextSession]_vars

(***************************************************************************)
(* Properties of closing the window and of the session.                    *)
(***************************************************************************)
\* C26: closeEvent accepts the close only if no tab is modified or the
\* answer is Discard or Save; when the answer is Save, every tab's content
\* has been written when the close is accepted: no tab is modified then and
\* the file of every tab that was modified holds its content; on Cancel the
\* close is ignored and the tabs (content, file path, modified flag) stay
\* as they are.
C26_CloseAcceptedOnlyWhenSavedOrDiscarded ==
    [][\A reply \in Replies, choices \in Choices, oks \in Outcomes :
          Call_closeEvent(reply, choices, oks) =>
             LET has_unsaved == \E i \in 1..Len(Tabs) : Tabs[i].is_modified
             IN  /\ window' = "closed" => (~has_unsaved \/ reply \in {"Discard", "Save"})
                 /\ (has_unsaved /\ reply = "Save" /\ window' = "closed") =>
                       /\ Len(Tabs') = Len(Tabs)
                       /\ \A i \in 1..Len(Tabs) :
                             /\ ~Tabs'[i].is_modified
                             /\ Tabs[i].is_modified
                                   => Holds(files', Tabs'[i].file_path, Tabs[i].text)
                 /\ (has_unsaved /\ reply = "Cancel") =>
                       (window' = "open" /\ Tabs' = Tabs)]_vars

\* The entries of the saved session that are to give a tab: those without
\* a file and those whose file exists.
Restorable == SelectSeq(last_session, LAMBDA e : e.file_path = NoPath \/ files[e.file_path].exists)

\* C27: restoring the tab list save_session wrote never fails and gives
\* one tab for each saved entry that has no file or whose file still
\* exists, in the saved order: the i-th tab has the file path of the i-th
\* such entry, its content when the entry has no file, and its custom name
\* (so no tab has the name of another entry), also for an untitled tab
\* with empty content.
C27_SessionRoundTrip ==
    [][\A read_oks \in Outcomes :
          Call_MainWindow(read_oks) =>
             /\ window' = "open"
             /\ Restorable # <<>> =>
                   /\ Len(Tabs') = Len(Restorable)
                   /\ \A i \in 1..Len(Restorable) :
                         /\ Tabs'[i].file_path = Restorable[i].file_path
                         /\ Restorable[i].file_path = NoPath
                               => Tabs'[i].text = Restorable[i].content
                         /\ Tabs'[i].custom_tab_name = Restorable[i].custom_name]_vars

=============================================================================
